---- MODULE Spec2Model ----
(***************************************************************************)
(* Model of the RAG backend of ai-chat-react: the Express handlers         *)
(* POST /api/rag/upload and POST /api/rag/query (server/server.js) and the *)
(* closure-based RAG service (server/services/ragService.js).              *)
(*                                                                         *)
(* One request is served at a time; each action is one step of a handler   *)
(* between two awaits.  The hosted services (Pinecone, the embedding API,  *)
(* the chat model, the PDF loader) are the environment: every call to one  *)
(* of them either answers or fails.                                        *)
(*                                                                         *)
(* Similarity scores are integers in thousandths (700 is 0.700); a text is *)
(* a pair of its identity and its length in characters.                    *)
(***************************************************************************)
EXTENDS Integers, Sequences, FiniteSets, TLC

VARIABLES
    env,             \* process.env: the keys and flags the handlers read
    isInitialized,   \* ragService.js: let isInitialized
    store,           \* the Pinecone index: namespace -> set of stored chunks
    disk,            \* server/uploads: the paths of the files on local disk
    nextSuffix,      \* multer's uniqueSuffix, one per stored upload
    pc,              \* position of the request being served
    req,             \* the request being served (or served last)
    calls,           \* external calls of this request, in order, with outcome
    relevantDocs,    \* query: result of similaritySearchWithScore
    relevantResults, \* query: candidates that passed the relevance gate
    prompt,          \* query: the prompt handed to llm.invoke
    citations,       \* query: the citations built for the answer
    enrichedDocs,    \* ingestPDF: the chunks to store
    pending,         \* ingestPDF: upsert batches not yet written
    response,        \* the HTTP response of the request served last
    handles,         \* ragService.js: let pinecone, index, embeddings, llm
    callers          \* concurrent requests awaiting initialize(): their positions

\* the browser side (src/components, src/contexts, src/utils)
VARIABLES
    ragChat,         \* RAGChatComponent: the React state (input, loading, messages, error)
    ragView,         \* RAGChatComponent: the state its last render closed over
    ragFetches,      \* RAGChatComponent: the /rag/query requests issued, in order
    expandedCitations, \* RAGChatComponent: keys of the citations shown in full
    showCitations,   \* RAGChatComponent: indexes of the messages whose citations are shown
    toggled,         \* the last call of toggleCitation: its arguments and the set it received
    now,             \* Date.now(), in milliseconds
    helperCall,      \* the last evaluation of canMakeRequest and getTimeRemaining
    localStorage,    \* the browser's localStorage: the three keys of STORAGE_KEYS
    state,           \* ChatProvider: the state of useReducer(chatReducer, initialState)
    providerMounted, \* ChatProvider is mounted (the page is open)
    pendingEffects,  \* ChatProvider: the effects whose dependencies changed in the last render
    sessionSeq,      \* number of session ids generateSessionId has handed out
    deletedIds,      \* the ids deleteSession has been called with
    lastImport,      \* what the last importChatHistory(exportChatHistory()) returned
    lastCleanup,     \* whether cleanupOldSessions has run, and the sessions it removed last
    chat,            \* ChatComponent: the React state (input, chatLog, loading, lastRequestTime, timeRemaining)
    chatView,        \* ChatComponent: the state its last render closed over
    chatMounted,     \* ChatComponent is mounted (its tab is the active one)
    chatTimer,       \* ChatComponent: the setInterval of the cooldown effect
    chatMounts,      \* number of times ChatComponent has been mounted
    chatRequests     \* the /openai/chat requests issued since the page was opened, in order

\* the Hugging Face proxy (server.js)
VARIABLES
    hfRequest,       \* the /api/huggingface/chat request being served
    hfCalls,         \* the upstream calls made for it, in order
    hfResponses,     \* the HTTP responses sent for it, in order
    hfServed         \* number of requests served so far

backendVars == <<env, isInitialized, store, disk, nextSuffix, pc, req, calls,
                 relevantDocs, relevantResults, prompt, citations, enrichedDocs,
                 pending, response, handles, callers>>

ragChatVars == <<ragChat, ragView, ragFetches>>

citationVars == <<expandedCitations, showCitations, toggled>>

helperVars == <<helperCall>>

sessionVars == <<localStorage, state, providerMounted, pendingEffects,
                 sessionSeq, deletedIds, lastImport, lastCleanup>>

chatVars == <<chat, chatView, chatMounted, chatTimer, chatMounts, chatRequests>>

hfVars == <<hfRequest, hfCalls, hfResponses, hfServed>>

clientVars == <<ragChatVars, citationVars, now, helperVars, sessionVars, chatVars, hfVars>>

vars == <<backendVars, clientVars>>

----------------------------------------------------------------------------
(* Bounds of the model *)

\* number of uploads whose file reaches the disk
MaxUploads == 2

\* number of vectors PineconeStore writes per upsert call
UpsertBatchSize == 2

\* number of requests that reach the service concurrently
MaxCallers == 3

Namespaces == {"default", "reports"}

\* topK values a caller supplies (4 is the default)
TopKs == {1, 4, 10}

\* questions a caller asks; "" is a request without a question
Questions == {"q_mixed", "q_low", "q_mid", "q_high"}

\* raw texts the chat model may return
Answers == {"llm_answer", "llm_refusal"}

----------------------------------------------------------------------------
(* The uploaded PDFs: what PDFLoader and the text splitter make of them *)

FileNames == {"a.pdf", "b.pdf"}

\* the chunks of a PDF: page number given by the loader (0 when the loader
\* gave no location) and the length of the chunk's text
SplitDocs(name) ==
    IF name = "a.pdf"
    THEN << [pageNumber |-> 1, len |-> 120] >>
    ELSE << [pageNumber |-> 1, len |-> 1000],
            [pageNumber |-> 1, len |-> 980],
            [pageNumber |-> 2, len |-> 150],
            [pageNumber |-> 0, len |-> 400] >>

PageCount(name) == IF name = "a.pdf" THEN 1 ELSE 2

\* cosine similarity of a question and a chunk, in thousandths: a fixed
\* function of the two texts, since the embedding model is deterministic
Sim(question, originalName, chunkIndex) ==
    LET row == IF originalName = "a.pdf" THEN 1 ELSE chunkIndex + 2
    IN  CASE question = "q_mixed" -> <<846, 700, 696, 496, 200>>[row]
          [] question = "q_low"   -> <<250, 299, 200, 120, 100>>[row]
          [] question = "q_mid"   -> <<496, 650, 504, 300, 200>>[row]
          [] OTHER                -> <<912, 846, 801, 754, 700>>[row]

----------------------------------------------------------------------------
(* Values *)

Absent == "undefined"

NoFile == "none"

NoResponse == [status |-> 0]

PdfMime == "application/pdf"

MimeTypes == {PdfMime, "text/plain"}

Min(a, b) == IF a <= b THEN a ELSE b

\* the record kept in `calls` for one external call
Call(name, outcome) == [name |-> name, outcome |-> outcome]

\* the last call of the log gets its outcome
Settle(log, outcome) ==
    [log EXCEPT ![Len(log)] = Call(log[Len(log)].name, outcome)]

----------------------------------------------------------------------------
(* The vector store's similarity search (PineconeStore, external) *)

ScoreOf(question, doc) == Sim(question, doc.originalName, doc.chunkIndex)

\* c ranks before d: higher score first, ties in order of insertion
RanksBefore(question, c, d) ==
    \/ ScoreOf(question, c) > ScoreOf(question, d)
    \/ /\ ScoreOf(question, c) = ScoreOf(question, d)
       /\ \/ c.fileName[1] < d.fileName[1]
          \/ c.fileName[1] = d.fileName[1] /\ c.chunkIndex < d.chunkIndex

\* variant: the search is not scoped to the namespace
NamespaceChunks_All(st, ns) == UNION {st[n] : n \in Namespaces}

\* PineconeStore.fromExistingIndex(embeddings, {pineconeIndex, namespace})
NamespaceChunks(st, ns) == st[ns]

RECURSIVE SimilaritySearchWithScore(_, _, _)
\* the k best chunks of a namespace with their scores, best first
SimilaritySearchWithScore(chunks, question, k) ==
    IF k <= 0 \/ chunks = {}
    THEN << >>
    ELSE LET best == CHOOSE c \in chunks :
                        \A d \in chunks \ {c} : RanksBefore(question, c, d)
         IN  << [doc |-> best, score |-> ScoreOf(question, best)] >>
             \o SimilaritySearchWithScore(chunks \ {best}, question, k - 1)

----------------------------------------------------------------------------
(* ragService.query: the decision layer *)

RELEVANCE_THRESHOLD == 700

ExcerptLen == 150

NA == -1

Unknown == <<0, "Unknown">>

\* variant: the zero-results check is missing
NoCandidates_Never(docs) == FALSE

\* relevantDocs.length === 0
NoCandidates(docs) == Len(docs) = 0

\* variant: the gate lets every candidate through
PassesGate_Any(p) == p.score >= 0

\* ([doc, score]) => score >= RELEVANCE_THRESHOLD
PassesGate(p) == p.score >= RELEVANCE_THRESHOLD

\* relevantDocs.filter(...)
FilterRelevant(docs) == SelectSeq(docs, PassesGate)

\* variant: the empty-gate check is missing
NoneRelevant_Never(results) == FALSE

\* relevantResults.length === 0
NoneRelevant(results) == Len(results) = 0

\* score.toFixed(2), in hundredths
ToFixed2(score) == (score + 5) \div 10

\* `[${i + 1}] (relevance: ${score.toFixed(2)}) ${doc.pageContent}`
ContextEntry(p, i) ==
    [num |-> i, relevance |-> ToFixed2(p.score), pageContent |-> p.doc.pageContent]

\* variant: the context lists the least relevant chunk first
BuildContext_Reversed(results) ==
    [i \in 1..Len(results) |-> ContextEntry(results[Len(results) + 1 - i], i)]

BuildContext(results) ==
    [i \in 1..Len(results) |-> ContextEntry(results[i], i)]

\* doc.pageContent.substring(0, 150) + '...'
Excerpt(text) == [id |-> text.id, len |-> Min(text.len, ExcerptLen), ellipsis |-> TRUE]

\* doc.metadata.fileName || 'Unknown'
CitationFileName(doc) == IF doc.fileName = << >> THEN Unknown ELSE doc.fileName

\* doc.metadata.loc?.pageNumber || doc.metadata.page || 'N/A'
CitationPage(doc) == IF doc.pageNumber # 0 THEN doc.pageNumber ELSE NA

Citation(p, i) ==
    [id        |-> i,
     fileName  |-> CitationFileName(p.doc),
     page      |-> CitationPage(p.doc),
     text      |-> Excerpt(p.doc.pageContent),
     relevance |-> ToFixed2(p.score)]

\* variant: the citations are numbered from the least relevant chunk
BuildCitations_Reversed(results) ==
    [i \in 1..Len(results) |-> Citation(results[Len(results) + 1 - i], i)]

BuildCitations(results) ==
    [i \in 1..Len(results) |-> Citation(results[i], i)]

BuildPrompt(results, question) ==
    [context |-> BuildContext(results), question |-> question]

NoPrompt == [context |-> << >>, question |-> ""]

\* the `sources` field of a generated answer
Sources(docs, results) == Len(docs)

NoDocumentsResult ==
    [success |-> TRUE, answer |-> "No documents have been uploaded yet",
     citations |-> << >>, sources |-> 0]

NotFoundResult ==
    [success |-> TRUE, answer |-> "I could not find relevant information",
     citations |-> << >>, sources |-> 0]

AnswerResult(answer, cits, docs, results) ==
    [success |-> TRUE, answer |-> answer, citations |-> cits,
     sources |-> Sources(docs, results)]

ErrorBody(message) == [success |-> FALSE, error |-> message]

----------------------------------------------------------------------------
(* ragService.ingestPDF: the chunks and their upsert batches *)

\* req.body.namespace || 'default'  /  { namespace = 'default' } = req.body
TargetNamespace(ns) == IF ns = Absent THEN "default" ELSE ns

\* splitDocs.map((doc, index) => ({...doc, metadata: {...}}))
EnrichDocs(path, ns) ==
    LET docs == SplitDocs(path[2])
    IN  [i \in 1..Len(docs) |->
            [fileName     |-> path,
             originalName |-> path[2],
             chunkIndex   |-> i - 1,
             pageNumber   |-> docs[i].pageNumber,
             pageContent  |-> [id |-> <<path[1], i - 1>>, len |-> docs[i].len],
             namespace    |-> ns]]

\* PineconeStore.addVectors writes the vectors in batches
Batches(docs) == 1..((Len(docs) + UpsertBatchSize - 1) \div UpsertBatchSize)

BatchDocs(docs, b) ==
    {docs[i] : i \in ((b - 1) * UpsertBatchSize + 1)..Min(b * UpsertBatchSize, Len(docs))}

IngestResult(path, docs) ==
    [success |-> TRUE, fileName |-> path, chunks |-> Len(docs),
     pages |-> PageCount(path[2]), message |-> "Successfully ingested"]

----------------------------------------------------------------------------
(* server.js: what the handlers do with the uploaded file *)

KeysConfigured == env.GEMINI_API_KEY /\ env.PINECONE_API_KEY

\* apiKey: process.env.OPENAI_API_KEY: without the key no call of the
\* embedding model or the chat model can answer
OpenAIAnswers == env.OPENAI_API_KEY

KeysRequiredError == "Gemini and Pinecone API keys are required for RAG functionality"

\* variant: the file is removed whatever DELETE_UPLOADED_PDFS says
DiskAfterIngest_Always(files, path) == files \ {path}

\* if (process.env.DELETE_UPLOADED_PDFS !== 'false') fs.unlinkSync(req.file.path)
DiskAfterIngest(files, path) ==
    IF env.DELETE_UPLOADED_PDFS THEN files \ {path} ELSE files

\* variant: the catch block leaves the uploaded file in place
DiskAfterError_Keep(files, path) == files

\* catch: if (req.file && fs.existsSync(req.file.path)) fs.unlinkSync(req.file.path)
DiskAfterError(files, path) == files \ {path}

----------------------------------------------------------------------------
(* ragService.deleteNamespace / listNamespaces *)

\* variant: deleteAll empties the whole index
StoreAfterDelete_All(st, ns) == [n \in Namespaces |-> {}]

\* index.namespace(namespace).deleteAll()
StoreAfterDelete(st, ns) == [st EXCEPT ![ns] = {}]

\* index.describeIndexStats(): the record counts of the namespaces shown
IndexStats(st, shown) ==
    [ns \in shown |-> [recordCount |-> Cardinality(st[ns]), vectorCount |-> 0]]

\* the namespaces describeIndexStats may show: all that hold vectors, and
\* any of the empty ones
ShownNamespaces(st) ==
    LET full == {ns \in Namespaces : st[ns] # {}}
    IN  {full \cup e : e \in SUBSET (Namespaces \ full)}

\* stats.namespaces[ns]?.recordCount || stats.namespaces[ns]?.vectorCount || 0
VectorCount(entry) ==
    IF entry.recordCount # 0 THEN entry.recordCount
    ELSE IF entry.vectorCount # 0 THEN entry.vectorCount ELSE 0

ListResult(stats) ==
    [success |-> TRUE,
     namespaces |-> {[name |-> ns, vectorCount |-> VectorCount(stats[ns])] : ns \in DOMAIN stats}]

----------------------------------------------------------------------------
(* The browser side before any component has mounted *)

\* a text the user types: its characters in order
NoText == << >>

\* useState('') / useState(false) / useState([]) / useState(null)
RagChatMounted ==
    /\ ragChat = [input |-> NoText, loading |-> FALSE, messages |-> << >>, error |-> "null"]
    /\ ragView = [input |-> NoText, loading |-> FALSE]
    /\ ragFetches = << >>

\* toggleCitation has not been called
NoToggle == [messageIndex |-> -1, citationId |-> -1, prev |-> {}]

\* useState<Set<string>>(new Set()) / useState<Set<number>>(new Set())
CitationsCollapsed ==
    /\ expandedCitations = {}
    /\ showCitations = {}
    /\ toggled = NoToggle

\* the helpers have not been called
NoCall == [lastRequestTime |-> 0, minInterval |-> 0, at |-> -1,
           canMakeRequest |-> FALSE, getTimeRemaining |-> 0]

HelpersUncalled == helperCall = NoCall

\* a clock nobody reads
ClockUnread == now = 0

\* localStorage.getItem returns null for the key
AbsentItem == [kind |-> "absent"]

\* currentSession: null
NoSession == [id |-> 0, provider |-> "none", messages |-> << >>, createdAt |-> 0, updatedAt |-> 0]

\* const DEFAULT_SETTINGS
DEFAULT_SETTINGS == [theme |-> "light", autoSave |-> TRUE, maxSessionHistory |-> 50]

\* no ChatProvider exists: the reducer state of a page that is not open
NoState ==
    [currentSession |-> NoSession, sessions |-> << >>, activeProvider |-> "mock",
     loading |-> FALSE, error |-> "null", settings |-> DEFAULT_SETTINGS]

\* cleanupOldSessions has not run
NoCleanup == [ran |-> FALSE, evicted |-> {}]

\* the page has never been opened: nothing is stored, nothing is mounted
PageClosed ==
    /\ localStorage = [sessions |-> AbsentItem, current |-> AbsentItem, settings |-> AbsentItem]
    /\ state = NoState
    /\ providerMounted = FALSE
    /\ pendingEffects = [autoSave |-> FALSE, settings |-> FALSE]
    /\ sessionSeq = 0
    /\ deletedIds = {}
    /\ lastImport = "none"
    /\ lastCleanup = NoCleanup

\* useState('') , useState<Message[]>([]), useState(false), useState(0), useState(0)
ChatInitialState ==
    [input |-> NoText, chatLog |-> << >>, loading |-> FALSE,
     lastRequestTime |-> 0, timeRemaining |-> 0]

\* no interval is set
NoTimer == [armed |-> FALSE, due |-> 0, lastRequestTime |-> 0]

\* the OpenAI chat tab has not been opened
ChatUnmounted ==
    /\ chat = ChatInitialState
    /\ chatView = ChatInitialState
    /\ chatMounted = FALSE
    /\ chatTimer = NoTimer
    /\ chatMounts = 0
    /\ chatRequests = << >>

\* let lastError = null
NoError == [resolved |-> FALSE, body |-> "none", status |-> -1]

\* no request is being served
NoRequest == [pc |-> "idle", token |-> FALSE, input |-> NoText, lastError |-> NoError]

\* the Hugging Face proxy serves nothing
HfIdle ==
    /\ hfRequest = NoRequest
    /\ hfCalls = << >>
    /\ hfResponses = << >>
    /\ hfServed = 0

ClientAtRest ==
    /\ RagChatMounted
    /\ CitationsCollapsed
    /\ ClockUnread
    /\ HelpersUncalled
    /\ PageClosed
    /\ ChatUnmounted
    /\ HfIdle

----------------------------------------------------------------------------
\* the server has started: the index is empty and no request is being served
ServerIdle ==
    /\ store = [ns \in Namespaces |-> {}]
    /\ disk = {}
    /\ nextSuffix = 0
    /\ pc = "idle"
    /\ req = [kind |-> "none"]
    /\ calls = << >>
    /\ relevantDocs = << >>
    /\ relevantResults = << >>
    /\ prompt = NoPrompt
    /\ citations = << >>
    /\ enrichedDocs = << >>
    /\ pending = {}
    /\ response = NoResponse

\* let pinecone = null; let index = null; let embeddings = null; let llm = null
\* (a handle is named by the caller whose run of initialize constructed it)
NoHandles == [pinecone |-> 0, index |-> 0, embeddings |-> 0, llm |-> 0]

Init ==
    /\ env \in [GEMINI_API_KEY : BOOLEAN, PINECONE_API_KEY : BOOLEAN,
                OPENAI_API_KEY : BOOLEAN, DELETE_UPLOADED_PDFS : BOOLEAN]
    /\ handles = NoHandles
    /\ callers = << >>
    /\ isInitialized = FALSE
    /\ ServerIdle
    /\ ClientAtRest

\* res.status(status).json(body): the request is over
Respond(status, body) ==
    /\ response' = [status |-> status, body |-> body]
    /\ pc' = "idle"

\* a request starts with the locals of the handlers cleared
FreshLocals ==
    /\ calls' = << >>
    /\ relevantDocs' = << >>
    /\ relevantResults' = << >>
    /\ prompt' = NoPrompt
    /\ citations' = << >>
    /\ enrichedDocs' = << >>
    /\ pending' = {}

\* the catch block of the handler serving the request: the upload handler
\* removes the uploaded file, both answer 500 with the error's message
HandlerCatch(message) ==
    /\ disk' = IF req.kind = "upload" THEN DiskAfterError(disk, req.path) ELSE disk
    /\ Respond(500, ErrorBody(message))

----------------------------------------------------------------------------
(* POST /api/rag/query up to the call of ragService.query *)

\* variant: the key check comes before the validation of the question
QueryReceive_KeysFirst ==
    /\ pc = "idle"
    /\ \E question \in Questions \cup {""}, ns \in Namespaces \cup {Absent}, k \in TopKs :
          /\ req' = [kind |-> "query", question |-> question,
                     namespace |-> TargetNamespace(ns), topK |-> k]
          /\ IF ~KeysConfigured
             THEN Respond(500, ErrorBody(KeysRequiredError))
             ELSE IF question = ""
                  THEN Respond(400, ErrorBody("Question is required"))
                  ELSE pc' = "q_init" /\ response' = NoResponse
    /\ FreshLocals
    /\ UNCHANGED <<clientVars, handles, callers, env, isInitialized, store, disk, nextSuffix>>

QueryReceive ==
    /\ pc = "idle"
    /\ \E question \in Questions \cup {""}, ns \in Namespaces \cup {Absent}, k \in TopKs :
          /\ req' = [kind |-> "query", question |-> question,
                     namespace |-> TargetNamespace(ns), topK |-> k]
          /\ IF question = ""
             THEN Respond(400, ErrorBody("Question is required"))
             ELSE IF ~KeysConfigured
                  THEN Respond(500, ErrorBody(KeysRequiredError))
                  ELSE pc' = "q_init" /\ response' = NoResponse
    /\ FreshLocals
    /\ UNCHANGED <<clientVars, handles, callers, env, isInitialized, store, disk, nextSuffix>>

(* POST /api/rag/upload up to the call of ragService.ingestPDF; multer's  *)
(* fileFilter and disk storage run before the handler                      *)
UploadReceive ==
    /\ pc = "idle"
    /\ \E file \in FileNames \cup {NoFile}, mime \in MimeTypes, ns \in Namespaces \cup {Absent} :
          IF file = NoFile
          THEN /\ req' = [kind |-> "upload", file |-> NoFile, mimetype |-> Absent]
               /\ Respond(400, ErrorBody("No PDF file uploaded"))
               /\ UNCHANGED <<disk, nextSuffix>>
          ELSE IF mime # PdfMime
          THEN \* cb(new Error('Only PDF files are allowed')): error middleware
               /\ req' = [kind |-> "upload", file |-> NoFile, mimetype |-> mime]
               /\ Respond(500, ErrorBody("Internal server error"))
               /\ UNCHANGED <<disk, nextSuffix>>
          ELSE /\ nextSuffix < MaxUploads
               /\ nextSuffix' = nextSuffix + 1
               /\ LET path == <<nextSuffix + 1, file>>
                  IN  /\ req' = [kind |-> "upload", file |-> file, mimetype |-> mime,
                                 path |-> path, namespace |-> TargetNamespace(ns)]
                      /\ IF ~KeysConfigured
                         THEN /\ disk' = disk   \* stored by multer, unlinked at once
                              /\ Respond(500, ErrorBody(KeysRequiredError))
                         ELSE /\ disk' = disk \cup {path}
                              /\ pc' = "u_init"
                              /\ response' = NoResponse
    /\ FreshLocals
    /\ UNCHANGED <<clientVars, handles, callers, env, isInitialized, store>>

----------------------------------------------------------------------------
(* ragService.initialize, awaited first by every function of the service *)

InitPcs == {"q_init", "u_init", "d_init", "l_init"}

AfterInit ==
    CASE pc = "q_init" -> "q_search"
      [] pc = "u_init" -> "u_load"
      [] pc = "d_init" -> "d_call"
      [] OTHER         -> "l_call"

\* if (isInitialized) return
InitializeAlready ==
    /\ pc \in InitPcs
    /\ isInitialized
    /\ pc' = AfterInit
    /\ UNCHANGED <<clientVars, handles, callers, env, isInitialized, store, disk, nextSuffix, req, calls,
                   relevantDocs, relevantResults, prompt, citations,
                   enrichedDocs, pending, response>>

\* listIndexes answers with the index, or fails and is only warned about;
\* the clients are constructed and isInitialized is set
InitializeOk ==
    /\ pc \in InitPcs
    /\ ~isInitialized
    /\ \E outcome \in {"ok", "failed"} :
          calls' = Append(calls, Call("listIndexes", outcome))
    /\ isInitialized' = TRUE
    /\ pc' = AfterInit
    /\ UNCHANGED <<clientVars, handles, callers, env, store, disk, nextSuffix, req, relevantDocs,
                   relevantResults, prompt, citations, enrichedDocs, pending,
                   response>>

\* the index does not exist: initialize throws, the handler's catch answers
InitializeFail ==
    /\ pc \in InitPcs
    /\ ~isInitialized
    /\ calls' = Append(calls, Call("listIndexes", "ok"))
    /\ HandlerCatch("Pinecone index does not exist")
    /\ UNCHANGED <<clientVars, handles, callers, env, isInitialized, store, nextSuffix, req, relevantDocs,
                   relevantResults, prompt, citations, enrichedDocs, pending>>

----------------------------------------------------------------------------
(* ragService.query *)

\* embedding the question fails inside similaritySearchWithScore
QueryEmbedFail ==
    /\ pc = "q_search"
    /\ calls' = Append(calls, Call("embedQuery", "failed"))
    /\ HandlerCatch("EmbeddingError")
    /\ UNCHANGED <<clientVars, handles, callers, env, isInitialized, store, nextSuffix, req, relevantDocs,
                   relevantResults, prompt, citations, enrichedDocs, pending>>

\* the vector store's query fails
QuerySearchFail ==
    /\ pc = "q_search"
    /\ OpenAIAnswers
    /\ calls' = calls \o << Call("embedQuery", "ok"), Call("search", "failed") >>
    /\ HandlerCatch("StorageError")
    /\ UNCHANGED <<clientVars, handles, callers, env, isInitialized, store, nextSuffix, req, relevantDocs,
                   relevantResults, prompt, citations, enrichedDocs, pending>>

\* the search answers: the zero-results check, the relevance gate, and
\* either a canned answer or the prompt handed to the chat model
QuerySearchOk ==
    /\ pc = "q_search"
    /\ OpenAIAnswers
    /\ LET docs    == SimilaritySearchWithScore(NamespaceChunks(store, req.namespace),
                                                req.question, req.topK)
           results == FilterRelevant(docs)
           searched == calls \o << Call("embedQuery", "ok"), Call("search", "ok") >>
       IN  /\ relevantDocs' = docs
           /\ IF NoCandidates(docs)
              THEN /\ Respond(200, NoDocumentsResult)
                   /\ calls' = searched
                   /\ UNCHANGED <<relevantResults, prompt, citations>>
              ELSE /\ relevantResults' = results
                   /\ IF NoneRelevant(results)
                      THEN /\ Respond(200, NotFoundResult)
                           /\ calls' = searched
                           /\ UNCHANGED <<prompt, citations>>
                      ELSE /\ prompt' = BuildPrompt(results, req.question)
                           /\ citations' = BuildCitations(results)
                           /\ calls' = Append(searched, Call("llm", "pending"))
                           /\ pc' = "q_llm"
                           /\ UNCHANGED response
    /\ UNCHANGED <<clientVars, handles, callers, env, isInitialized, store, disk, nextSuffix, req,
                   enrichedDocs, pending>>

\* llm.invoke answers: its raw text is the answer
QueryLLMOk ==
    /\ pc = "q_llm"
    /\ OpenAIAnswers
    /\ calls' = Settle(calls, "ok")
    /\ \E answer \in Answers :
          Respond(200, AnswerResult(answer, citations, relevantDocs, relevantResults))
    /\ UNCHANGED <<clientVars, handles, callers, env, isInitialized, store, disk, nextSuffix, req,
                   relevantDocs, relevantResults, prompt, citations,
                   enrichedDocs, pending>>

\* variant: a failed llm.invoke is tried again
QueryLLMFail_Retry ==
    /\ pc = "q_llm"
    /\ Len(calls) < 8
    /\ calls' = Append(Settle(calls, "failed"), Call("llm", "pending"))
    /\ UNCHANGED <<clientVars, handles, callers, env, isInitialized, store, disk, nextSuffix, pc, req,
                   relevantDocs, relevantResults, prompt, citations,
                   enrichedDocs, pending, response>>

\* llm.invoke fails: query rethrows, the handler's catch answers
QueryLLMFail ==
    /\ pc = "q_llm"
    /\ calls' = Settle(calls, "failed")
    /\ HandlerCatch("GenerationError")
    /\ UNCHANGED <<clientVars, handles, callers, env, isInitialized, store, nextSuffix, req, relevantDocs,
                   relevantResults, prompt, citations, enrichedDocs, pending>>

----------------------------------------------------------------------------
(* ragService.ingestPDF *)

\* loader.load() fails (encrypted, corrupted or empty PDF)
UploadLoadFail ==
    /\ pc = "u_load"
    /\ HandlerCatch("ExtractionError")
    /\ UNCHANGED <<clientVars, handles, callers, env, isInitialized, store, nextSuffix, req, calls,
                   relevantDocs, relevantResults, prompt, citations,
                   enrichedDocs, pending>>

\* the PDF is loaded, split and enriched; fromDocuments starts by embedding
UploadLoadOk ==
    /\ pc = "u_load"
    /\ enrichedDocs' = EnrichDocs(req.path, req.namespace)
    /\ calls' = Append(calls, Call("embedDocuments", "pending"))
    /\ pc' = "u_embed"
    /\ UNCHANGED <<clientVars, handles, callers, env, isInitialized, store, disk, nextSuffix, req,
                   relevantDocs, relevantResults, prompt, citations, pending,
                   response>>

\* the embedding API fails: nothing has been written yet
UploadEmbedFail ==
    /\ pc = "u_embed"
    /\ calls' = Settle(calls, "failed")
    /\ HandlerCatch("EmbeddingError")
    /\ UNCHANGED <<clientVars, handles, callers, env, isInitialized, store, nextSuffix, req, relevantDocs,
                   relevantResults, prompt, citations, enrichedDocs, pending>>

\* all chunks are embedded: the upsert batches are issued
UploadEmbedOk ==
    /\ pc = "u_embed"
    /\ OpenAIAnswers
    /\ calls' = Settle(calls, "ok")
    /\ pending' = Batches(enrichedDocs)
    /\ pc' = "u_upsert"
    /\ UNCHANGED <<clientVars, handles, callers, env, isInitialized, store, disk, nextSuffix, req,
                   relevantDocs, relevantResults, prompt, citations,
                   enrichedDocs, response>>

\* one batch is written; after the last one ingestPDF returns and the
\* handler removes the file (if configured) and answers
UploadUpsertOk ==
    /\ pc = "u_upsert"
    /\ \E b \in pending :
          /\ store' = [store EXCEPT ![req.namespace] = @ \cup BatchDocs(enrichedDocs, b)]
          /\ pending' = pending \ {b}
          /\ calls' = Append(calls, Call("upsert", "ok"))
          /\ IF pending' = {}
             THEN /\ disk' = DiskAfterIngest(disk, req.path)
                  /\ Respond(200, IngestResult(req.path, enrichedDocs))
             ELSE UNCHANGED <<disk, pc, response>>
    /\ UNCHANGED <<clientVars, handles, callers, env, isInitialized, nextSuffix, req, relevantDocs,
                   relevantResults, prompt, citations, enrichedDocs>>

\* the upsert of a batch fails: fromDocuments throws, ingestPDF rethrows,
\* the handler's catch answers
UploadUpsertFail ==
    /\ pc = "u_upsert"
    /\ \E b \in pending : calls' = Append(calls, Call("upsert", "failed"))
    /\ HandlerCatch("StorageError")
    /\ UNCHANGED <<clientVars, handles, callers, env, isInitialized, store, nextSuffix, req, relevantDocs,
                   relevantResults, prompt, citations, enrichedDocs, pending>>

----------------------------------------------------------------------------
(* DELETE /api/rag/namespace/:namespace and GET /api/rag/namespaces *)

NamespaceDeleteReceive ==
    /\ pc = "idle"
    /\ \E ns \in Namespaces :
          req' = [kind |-> "delete", namespace |-> ns]
    /\ IF ~env.PINECONE_API_KEY
       THEN Respond(500, ErrorBody("Pinecone API key is required"))
       ELSE pc' = "d_init" /\ response' = NoResponse
    /\ FreshLocals
    /\ UNCHANGED <<clientVars, handles, callers, env, isInitialized, store, disk, nextSuffix>>

NamespacesListReceive ==
    /\ pc = "idle"
    /\ req' = [kind |-> "list"]
    /\ IF ~env.PINECONE_API_KEY
       THEN Respond(500, ErrorBody("Pinecone API key is required"))
       ELSE pc' = "l_init" /\ response' = NoResponse
    /\ FreshLocals
    /\ UNCHANGED <<clientVars, handles, callers, env, isInitialized, store, disk, nextSuffix>>

\* deleteAll answers: the handler reports the deletion
DeleteNamespaceOk ==
    /\ pc = "d_call"
    /\ store' = StoreAfterDelete(store, req.namespace)
    /\ calls' = Append(calls, Call("deleteAll", "ok"))
    /\ Respond(200, [success |-> TRUE, message |-> <<"deleted successfully", req.namespace>>])
    /\ UNCHANGED <<clientVars, handles, callers, env, isInitialized, disk, nextSuffix, req, relevantDocs,
                   relevantResults, prompt, citations, enrichedDocs, pending>>

DeleteNamespaceFail ==
    /\ pc = "d_call"
    /\ calls' = Append(calls, Call("deleteAll", "failed"))
    /\ HandlerCatch("StorageError")
    /\ UNCHANGED <<clientVars, handles, callers, env, isInitialized, store, nextSuffix, req, relevantDocs,
                   relevantResults, prompt, citations, enrichedDocs, pending>>

\* describeIndexStats answers: the namespaces and their counts are returned
ListNamespacesOk ==
    /\ pc = "l_call"
    /\ calls' = Append(calls, Call("describeIndexStats", "ok"))
    /\ \E shown \in ShownNamespaces(store) :
          Respond(200, ListResult(IndexStats(store, shown)))
    /\ UNCHANGED <<clientVars, handles, callers, env, isInitialized, store, disk, nextSuffix, req,
                   relevantDocs, relevantResults, prompt, citations,
                   enrichedDocs, pending>>

ListNamespacesFail ==
    /\ pc = "l_call"
    /\ calls' = Append(calls, Call("describeIndexStats", "failed"))
    /\ HandlerCatch("StorageError")
    /\ UNCHANGED <<clientVars, handles, callers, env, isInitialized, store, nextSuffix, req, relevantDocs,
                   relevantResults, prompt, citations, enrichedDocs, pending>>

----------------------------------------------------------------------------
(* POST /api/openai/chat: the proxy of the chat-completions API *)

ChatReceive ==
    /\ pc = "idle"
    /\ \E messages \in {"array", Absent} :
          /\ req' = [kind |-> "chat", messages |-> messages]
          /\ IF ~env.OPENAI_API_KEY
             THEN Respond(500, ErrorBody("OpenAI API key not configured on server"))
             ELSE IF messages = Absent
                  THEN Respond(400, ErrorBody("Messages array is required"))
                  ELSE pc' = "c_call" /\ response' = NoResponse
    /\ FreshLocals
    /\ UNCHANGED <<clientVars, handles, callers, env, isInitialized, store, disk, nextSuffix>>

\* response.data.choices?.[0]?.message?.content || 'No response generated'
ChatAnswer ==
    /\ pc = "c_call"
    /\ calls' = Append(calls, Call("chatCompletions", "ok"))
    /\ \E content \in {"", "completion"} :
          Respond(200, [success |-> TRUE,
                        data |-> IF content = "" THEN "No response generated" ELSE content])
    /\ UNCHANGED <<clientVars, handles, callers, env, isInitialized, store, disk, nextSuffix, req,
                   relevantDocs, relevantResults, prompt, citations,
                   enrichedDocs, pending>>

\* the API answers with an error status: 429 is passed on, the rest is 500
ChatError ==
    /\ pc = "c_call"
    /\ calls' = Append(calls, Call("chatCompletions", "failed"))
    /\ \E status \in {429, 401, 503} :
          IF status = 429
          THEN Respond(429, ErrorBody("Rate limit exceeded. Please try again later."))
          ELSE IF status = 401
               THEN Respond(500, ErrorBody("Invalid API key configuration"))
               ELSE Respond(500, ErrorBody("API Error"))
    /\ UNCHANGED <<clientVars, handles, callers, env, isInitialized, store, disk, nextSuffix, req,
                   relevantDocs, relevantResults, prompt, citations,
                   enrichedDocs, pending>>

----------------------------------------------------------------------------
(* External calls that never answer *)

\* the call the request is waiting for
AwaitedCall ==
    CASE pc = "q_search" -> "search"
      [] pc = "q_llm"    -> "llm"
      [] pc = "u_embed"  -> "embedDocuments"
      [] pc = "u_upsert" -> "upsert"
      [] pc = "d_call"   -> "deleteAll"
      [] pc = "l_call"   -> "describeIndexStats"
      [] OTHER           -> "chatCompletions"

AwaitingPcs == {"q_search", "q_llm", "u_embed", "u_upsert", "d_call", "l_call", "c_call"}

\* axios.post(..., {timeout: 30000}) bounds the proxy's call; the clients
\* of ragService are constructed and called without any timeout
HasTimeout(name) == name = "chatCompletions"

\* the log with the awaited call given its outcome
Outcome(log, name, outcome) ==
    IF log # << >> /\ log[Len(log)] = Call(name, "pending")
    THEN Settle(log, outcome)
    ELSE Append(log, Call(name, outcome))

\* the awaited call never answers and a timeout ends it: axios rejects
\* without a response, the handler's catch answers 500
CallTimesOut ==
    /\ pc \in AwaitingPcs
    /\ HasTimeout(AwaitedCall)
    /\ calls' = Outcome(calls, AwaitedCall, "timeout")
    /\ disk' = IF req.kind = "upload" THEN DiskAfterError(disk, req.path) ELSE disk
    /\ Respond(500, ErrorBody("Failed to communicate"))
    /\ UNCHANGED <<clientVars, handles, callers, env, isInitialized, store, nextSuffix, req, relevantDocs,
                   relevantResults, prompt, citations, enrichedDocs, pending>>

\* the awaited call never answers and nothing ends it: the await never
\* resumes and the request gets no response
CallNeverAnswers ==
    /\ pc \in AwaitingPcs
    /\ ~HasTimeout(AwaitedCall)
    /\ calls' = Outcome(calls, AwaitedCall, "no_answer")
    /\ pc' = "hung"
    /\ UNCHANGED <<clientVars, handles, callers, env, isInitialized, store, disk, nextSuffix, req,
                   relevantDocs, relevantResults, prompt, citations,
                   enrichedDocs, pending, response>>

----------------------------------------------------------------------------
Next ==
    \/ QueryReceive
    \/ UploadReceive
    \/ InitializeAlready
    \/ InitializeOk
    \/ InitializeFail
    \/ QueryEmbedFail
    \/ QuerySearchFail
    \/ QuerySearchOk
    \/ QueryLLMOk
    \/ QueryLLMFail
    \/ UploadLoadFail
    \/ UploadLoadOk
    \/ UploadEmbedFail
    \/ UploadEmbedOk
    \/ UploadUpsertOk
    \/ UploadUpsertFail
    \/ NamespaceDeleteReceive
    \/ NamespacesListReceive
    \/ DeleteNamespaceOk
    \/ DeleteNamespaceFail
    \/ ListNamespacesOk
    \/ ListNamespacesFail
    \/ ChatReceive
    \/ ChatAnswer
    \/ ChatError
    \/ CallTimesOut
    \/ CallNeverAnswers

Spec == Init /\ [][Next]_vars

\* a handler goes on once the call it awaits has answered, failed or timed out
HandlerStep ==
    \/ InitializeAlready \/ InitializeOk \/ InitializeFail
    \/ QueryEmbedFail \/ QuerySearchFail \/ QuerySearchOk
    \/ QueryLLMOk \/ QueryLLMFail
    \/ UploadLoadFail \/ UploadLoadOk \/ UploadEmbedFail \/ UploadEmbedOk
    \/ UploadUpsertOk \/ UploadUpsertFail
    \/ DeleteNamespaceOk \/ DeleteNamespaceFail
    \/ ListNamespacesOk \/ ListNamespacesFail
    \/ ChatAnswer \/ ChatError \/ CallTimesOut

FairSpec == Spec /\ WF_vars(HandlerStep)


----------------------------------------------------------------------------
(* ragService.initialize under concurrent requests: every function of the *)
(* service starts with `await initialize()`, and initialize itself awaits *)
(* pinecone.listIndexes() before it sets isInitialized                     *)

Callers == 1..MaxCallers

serverVars == <<env, store, disk, nextSuffix, pc, req, calls, relevantDocs,
                relevantResults, prompt, citations, enrichedDocs, pending,
                response>>

RaceInit ==
    /\ env = [GEMINI_API_KEY |-> TRUE, PINECONE_API_KEY |-> TRUE,
              OPENAI_API_KEY |-> TRUE, DELETE_UPLOADED_PDFS |-> TRUE]
    /\ handles = NoHandles
    /\ callers = [c \in Callers |-> [pc |-> "arrived", ranBody |-> FALSE, held |-> NoHandles]]
    /\ isInitialized = FALSE
    /\ ServerIdle
    /\ ClientAtRest

\* initialize() up to its first await: the flag is tested, and when it is
\* not set the Pinecone client is constructed and listIndexes is awaited
InitializeEnter(c) ==
    /\ callers[c].pc = "arrived"
    /\ IF isInitialized
       THEN /\ callers' = [callers EXCEPT ![c].pc = "ready"]
            /\ UNCHANGED handles
       ELSE /\ handles' = [handles EXCEPT !.pinecone = c]
            /\ callers' = [callers EXCEPT ![c].pc = "listing", ![c].ranBody = TRUE]
    /\ UNCHANGED <<isInitialized, serverVars, clientVars>>

\* listIndexes has answered (or failed with a warning): index, embeddings
\* and llm are assigned and isInitialized is set
InitializeResume(c) ==
    /\ callers[c].pc = "listing"
    /\ handles' = [handles EXCEPT !.index = handles.pinecone,
                                  !.embeddings = c, !.llm = c]
    /\ isInitialized' = TRUE
    /\ callers' = [callers EXCEPT ![c].pc = "ready"]
    /\ UNCHANGED <<serverVars, clientVars>>

\* the index does not exist: initialize throws
InitializeThrow(c) ==
    /\ callers[c].pc = "listing"
    /\ callers' = [callers EXCEPT ![c].pc = "failed"]
    /\ UNCHANGED <<handles, isInitialized, serverVars, clientVars>>

\* the service function reads the handles and awaits its external call
ServiceCall(c) ==
    /\ callers[c].pc = "ready"
    /\ callers' = [callers EXCEPT ![c].pc = "using", ![c].held = handles]
    /\ UNCHANGED <<handles, isInitialized, serverVars, clientVars>>

\* the external call answers and the service function returns
ServiceReturn(c) ==
    /\ callers[c].pc = "using"
    /\ callers' = [callers EXCEPT ![c].pc = "done"]
    /\ UNCHANGED <<handles, isInitialized, serverVars, clientVars>>

RaceNext ==
    \E c \in Callers :
        \/ InitializeEnter(c)
        \/ InitializeResume(c)
        \/ InitializeThrow(c)
        \/ ServiceCall(c)
        \/ ServiceReturn(c)

RaceSpec == RaceInit /\ [][RaceNext]_vars

TypeOK ==
    /\ isInitialized \in BOOLEAN
    /\ pc \in {"idle", "q_init", "q_search", "q_llm", "u_init", "u_load", "u_embed", "u_upsert",
              "d_init", "d_call", "l_init", "l_call", "c_call", "hung"}
    /\ nextSuffix \in 0..MaxUploads
    /\ \A ns \in Namespaces : \A c \in store[ns] : c.namespace = ns
    /\ Len(relevantResults) <= Len(relevantDocs)

----------------------------------------------------------------------------
(* Vocabulary of the properties *)

\* the minimum viable score of the README: below it no answer is generated
MinViableScore == 300

CallsOf(name) == {i \in 1..Len(calls) : calls[i].name = name}

\* the similarity search of this request has answered
SearchAnswered == \E i \in CallsOf("search") : calls[i].outcome = "ok"

\* the chat model has been invoked for this request
LLMInvoked == CallsOf("llm") # {}

\* a query went through the similarity search
Searched == req.kind = "query" /\ SearchAnswered

\* the request served last was a query and has its response
QueryServed == pc = "idle" /\ req.kind = "query" /\ response # NoResponse

\* the request served last was an upload whose file reached ingestPDF
IngestServed ==
    /\ pc = "idle"
    /\ req.kind = "upload"
    /\ req.file # NoFile
    /\ response # NoResponse
    /\ KeysConfigured

TopScore(docs) ==
    CHOOSE s \in {docs[i].score : i \in 1..Len(docs)} :
        \A i \in 1..Len(docs) : docs[i].score <= s

\* the candidate is one of the numbered entries of the prompt's context
InContext(p) ==
    \E j \in 1..Len(prompt.context) : prompt.context[j].pageContent = p.doc.pageContent

StoredChunksOf(path) ==
    UNION {{c \in store[ns] : c.fileName = path} : ns \in Namespaces}

----------------------------------------------------------------------------
C2_BelowMinimumShortCircuit ==
    (Searched /\ relevantDocs # << >> /\ TopScore(relevantDocs) < MinViableScore)
        => /\ pc = "idle"
           /\ response = [status |-> 200, body |-> NotFoundResult]
           /\ response.body.citations = << >>
           /\ ~LLMInvoked

C2_Witness ==
    /\ Searched
    /\ relevantDocs # << >>
    /\ TopScore(relevantDocs) < MinViableScore
    /\ response.status = 200

(* C3: whenever the chat model is invoked, the number of citations is     *)
(* between 2 and 6 inclusive.                                              *)
C3_CitationCountBounds ==
    (req.kind = "query" /\ LLMInvoked)
        => (2 <= Len(citations) /\ Len(citations) <= 6)

(* C4: the relevance gate is relative to the best candidate: with a best  *)
(* score of at least the minimum viable score, a candidate is kept for    *)
(* the prompt exactly when its score is at least 0.7 times the best score. *)
C4_DynamicRelevanceGate ==
    (Searched /\ relevantDocs # << >> /\ TopScore(relevantDocs) >= MinViableScore)
        => \A i \in 1..Len(relevantDocs) :
              InContext(relevantDocs[i])
                  <=> 10 * relevantDocs[i].score >= 7 * TopScore(relevantDocs)

(* C5: in a generated answer with n citations the citation ids are 1..n   *)
(* in order, and citation i is built from the same retrieved chunk (file  *)
(* name, page, text prefix, score) as entry [i] of the prompt's context.   *)
C5_CitationsMatchContext ==
    (req.kind = "query" /\ LLMInvoked)
        => /\ Len(citations) = Len(prompt.context)
           /\ \A i \in 1..Len(citations) :
                 /\ citations[i].id = i
                 /\ prompt.context[i].num = i
                 /\ citations[i].relevance = prompt.context[i].relevance
                 /\ \E k \in 1..Len(relevantDocs) :
                       LET d == relevantDocs[k].doc
                       IN  /\ prompt.context[i].pageContent = d.pageContent
                           /\ citations[i].fileName = d.fileName
                           /\ citations[i].page = (IF d.pageNumber = 0 THEN NA ELSE d.pageNumber)
                           /\ citations[i].text.id = d.pageContent.id
                           /\ citations[i].text.len <= d.pageContent.len
                           /\ citations[i].text.len <= ExcerptLen
                           /\ 10 * citations[i].relevance - 5 <= relevantDocs[k].score
                           /\ relevantDocs[k].score < 10 * citations[i].relevance + 5
           /\ (QueryServed /\ response.status = 200)
                 => response.body.citations = citations

C5_Witness ==
    /\ QueryServed
    /\ response.status = 200
    /\ LLMInvoked
    /\ Len(response.body.citations) >= 2
    /\ \E i \in 1..Len(citations) : citations[i].page = NA

(* C6: a successful query response is either an answer of the chat model  *)
(* with at least one citation, or a canned answer with no citation and no *)
(* call of the chat model.                                                 *)
C6_AnswerOrSentinel ==
    (QueryServed /\ response.status = 200)
        => \/ /\ LLMInvoked
              /\ response.body.answer \in Answers
              /\ Len(response.body.citations) >= 1
           \/ /\ ~LLMInvoked
              /\ response.body \in {NoDocumentsResult, NotFoundResult}
              /\ response.body.citations = << >>

C6_Witness ==
    /\ QueryServed
    /\ response.status = 200
    /\ LLMInvoked
    /\ response.body.answer \in Answers
    /\ Len(response.body.citations) = 1

(* C7: the sources field of a query result equals the number of citations *)
(* returned.                                                               *)
C7_SourcesCountCitations ==
    (QueryServed /\ response.status = 200)
        => response.body.sources = Len(response.body.citations)

(* C8: within one query request the similarity search and the chat model  *)
(* are each invoked at most once, and when the search or the chat model   *)
(* fails no further external call is made and the response is a 500 with  *)
(* success false and an error message.                                     *)
C8_NoRetry ==
    req.kind = "query"
        => /\ Cardinality(CallsOf("search")) <= 1
           /\ Cardinality(CallsOf("llm")) <= 1
           /\ \A i \in 1..Len(calls) :
                 (calls[i].name \in {"embedQuery", "search", "llm"}
                     /\ calls[i].outcome = "failed")
                    => /\ i = Len(calls)
                       /\ pc = "idle"
                       /\ response.status = 500
                       /\ ~response.body.success
                       /\ response.body.error # ""

C8_Witness ==
    /\ QueryServed
    /\ \E i \in CallsOf("llm") : calls[i].outcome = "failed"
    /\ response.status = 500

(* C9: ingestion is all-or-nothing per file: after a failed ingestPDF no  *)
(* chunk of the file is in the vector store, after a successful one every *)
(* chunk of the file is in the target namespace.                           *)
C9_IngestAllOrNothing ==
    IngestServed
        => IF response.status = 200
           THEN {enrichedDocs[i] : i \in 1..Len(enrichedDocs)} \subseteq store[req.namespace]
           ELSE StoredChunksOf(req.path) = {}

\* the upsert of a batch failed and the handler has answered
UpsertFailed ==
    /\ IngestServed
    /\ calls # << >>
    /\ calls[Len(calls)] = Call("upsert", "failed")

(* C10 as stated: when ingestion fails because the upsert fails, the      *)
(* upload is answered with an error and the uploaded file is still on     *)
(* local disk.                                                             *)
C10_FileKeptAfterUpsertFailure ==
    UpsertFailed
        => /\ response.status = 500
           /\ ~response.body.success
           /\ req.path \in disk

(* C10 amended: when ingestion fails because the upsert fails, the upload *)
(* is answered with a 500 error and the uploaded file has been removed    *)
(* from local disk by the handler's catch block.                           *)
C10_FileRemovedAfterUpsertFailure ==
    UpsertFailed
        => /\ response.status = 500
           /\ ~response.body.success
           /\ response.body.error = "StorageError"
           /\ req.path \notin disk

C10_Witness ==
    /\ UpsertFailed
    /\ response.status = 500
    /\ req.path \notin disk

----------------------------------------------------------------------------
\* an upload whose file multer's fileFilter turned down
NonPdfUpload ==
    /\ req.kind = "upload"
    /\ req.mimetype \notin {PdfMime, Absent}

\* no step of ragService has run for the request
PipelineUntouched ==
    /\ calls = << >>
    /\ enrichedDocs = << >>
    /\ relevantDocs = << >>

(* C11: an upload whose MIME type is not application/pdf is answered with *)
(* a 400-class status, and neither ingestPDF nor an embedding call is     *)
(* made for it.                                                            *)
C11_NonPdfRejectedWith4xx ==
    NonPdfUpload
        => /\ pc = "idle"
           /\ response.status >= 400
           /\ response.status <= 499
           /\ PipelineUntouched

\* an upload without a file, or a query without a question
MissingInput ==
    \/ req.kind = "upload" /\ req.file = NoFile /\ req.mimetype = Absent
    \/ req.kind = "query" /\ req.question = ""

(* C12: an upload without a file and a query without a question are each  *)
(* answered with status 400 and success false, whatever the keys          *)
(* configured, and ragService is not invoked.                              *)
C12_MissingInputIs400 ==
    MissingInput
        => /\ pc = "idle"
           /\ response.status = 400
           /\ ~response.body.success
           /\ PipelineUntouched

C12_Witness ==
    /\ req.kind = "query"
    /\ req.question = ""
    /\ ~KeysConfigured
    /\ response.status = 400

\* a request that passed validation: a stored PDF or a question
ValidRagRequest ==
    \/ req.kind = "upload" /\ req.file # NoFile
    \/ req.kind = "query" /\ req.question # ""

(* C13: when OPENAI_API_KEY or PINECONE_API_KEY is not set, upload and    *)
(* query answer 500 with success false and the keys-required error, and   *)
(* ingestPDF / query of ragService are never invoked.                      *)
C13_MissingKeysRejected ==
    (ValidRagRequest /\ (~env.OPENAI_API_KEY \/ ~env.PINECONE_API_KEY))
        => /\ pc = "idle"
           /\ response.status = 500
           /\ ~response.body.success
           /\ response.body.error = KeysRequiredError
           /\ PipelineUntouched

----------------------------------------------------------------------------
\* the request served last was a listing that succeeded
ListServed ==
    /\ pc = "idle"
    /\ req.kind = "list"
    /\ response.status = 200

\* the step in which deleteNamespace(ns) succeeds
DeleteSucceeds(ns) ==
    /\ req.kind = "delete"
    /\ req.namespace = ns
    /\ pc = "d_call"
    /\ response'.status = 200

(* C14: a successful deleteNamespace(N) empties N and leaves the vectors  *)
(* of every other namespace as they were, and a listing reports for each  *)
(* namespace the number of vectors it holds at that time; so a listing    *)
(* after the deletion does not report N with its former count and reports *)
(* the other namespaces as before.                                         *)
C14_DeleteThenList ==
    /\ [][\A ns \in Namespaces :
            DeleteSucceeds(ns)
                => /\ store'[ns] = {}
                   /\ \A other \in Namespaces \ {ns} : store'[other] = store[other]]_vars
    /\ [](ListServed
            => /\ \A e \in response.body.namespaces :
                     e.vectorCount = Cardinality(store[e.name])
               /\ \A ns \in Namespaces :
                     store[ns] # {} => \E e \in response.body.namespaces : e.name = ns)

\* a listing after a deletion: a file that was ingested and kept on disk
\* has no vector left, while another namespace still holds vectors
C14_Witness ==
    /\ ListServed
    /\ \E path \in disk : StoredChunksOf(path) = {}
    /\ \E e \in response.body.namespaces : e.vectorCount > 0

(* C15: every citation of a query on namespace N, and every entry of the  *)
(* prompt's context, comes from a chunk that was ingested under N and is  *)
(* still stored there; a request that names no namespace uses "default".   *)
C15_NamespaceIsolation ==
    /\ (req.kind \in {"query", "delete"} \/ (req.kind = "upload" /\ req.file # NoFile))
          => req.namespace \in Namespaces
    /\ (req.kind = "query" /\ LLMInvoked)
          => /\ \A i \in 1..Len(relevantDocs) :
                   /\ relevantDocs[i].doc \in store[req.namespace]
                   /\ relevantDocs[i].doc.namespace = req.namespace
             /\ \A i \in 1..Len(citations) :
                   \E c \in store[req.namespace] :
                      /\ c.namespace = req.namespace
                      /\ c.fileName = citations[i].fileName
                      /\ c.pageContent.id = citations[i].text.id
             /\ \A j \in 1..Len(prompt.context) :
                   \E c \in store[req.namespace] :
                      c.pageContent = prompt.context[j].pageContent

\* an answer with citations while the other namespace holds chunks too
C15_Witness ==
    /\ QueryServed
    /\ LLMInvoked
    /\ response.status = 200
    /\ Len(response.body.citations) >= 1
    /\ \E other \in Namespaces \ {req.namespace} : store[other] # {}

----------------------------------------------------------------------------
\* the request served last was an upload whose file multer stored on disk
UploadStored ==
    /\ pc = "idle"
    /\ req.kind = "upload"
    /\ req.file # NoFile
    /\ response # NoResponse

(* C19 as stated: a stored upload is removed from disk only after a       *)
(* successful ingestion and only when deletion is enabled; with deletion  *)
(* disabled a successfully ingested file is still on disk when the        *)
(* response is sent.                                                       *)
C19_DeletedOnlyAfterSuccess ==
    UploadStored
        => /\ req.path \notin disk => (response.status = 200 /\ env.DELETE_UPLOADED_PDFS)
           /\ (response.status = 200 /\ ~env.DELETE_UPLOADED_PDFS) => req.path \in disk

(* C19 amended: when the response of a stored upload is sent, the file is *)
(* still on disk exactly when the ingestion succeeded and deletion is     *)
(* disabled; after a successful ingestion with deletion enabled, and on   *)
(* every failure (missing keys, any ingestion error), it has been         *)
(* removed.  While the ingestion runs the file is on disk.                 *)
C19_FileKeptIffSuccessAndDisabled ==
    /\ UploadStored
          => (req.path \in disk <=> (response.status = 200 /\ ~env.DELETE_UPLOADED_PDFS))
    /\ pc \in {"u_init", "u_load", "u_embed", "u_upsert"} => req.path \in disk

C19_Witness ==
    /\ UploadStored
    /\ response.status = 200
    /\ ~env.DELETE_UPLOADED_PDFS
    /\ req.path \in disk

----------------------------------------------------------------------------
(* C17: every outbound call made while serving a request is bounded by a  *)
(* timeout, so every accepted request eventually receives its response    *)
(* (a failure response when the call never answers).                       *)
C17_EveryRequestAnswered == (pc # "idle") ~> (pc = "idle")

----------------------------------------------------------------------------
(* C18: across any interleaving of concurrent requests, the body of       *)
(* initialize() constructs the clients at most once per process (as long  *)
(* as no initialization has failed), and the handles a request is using   *)
(* are never replaced.                                                     *)
C18_InitializedOnce ==
    /\ (\A c \in DOMAIN callers : callers[c].pc # "failed")
          => Cardinality({c \in DOMAIN callers : callers[c].ranBody}) <= 1
    /\ \A c \in DOMAIN callers :
          callers[c].pc = "using" => callers[c].held = handles

----------------------------------------------------------------------------
(* RAGChatComponent (src/components/RAGChatComponent.tsx): the input box,  *)
(* the Send button and the query in flight.  An event handler reads the    *)
(* state its render closed over (ragView); the state set inside a click or *)
(* key event is rendered before the next event is delivered, the state set *)
(* after an await is rendered later.                                       *)

\* number of queries the user sends
MaxRagSends == 2

\* number of characters of a typed text
MaxInputLen == 2

Chars == {" ", "a"}

\* the texts the user types into the input box
Inputs == UNION {[1..n -> Chars] : n \in 0..MaxInputLen}

RECURSIVE TrimStart(_)
TrimStart(text) ==
    IF text # << >> /\ Head(text) = " " THEN TrimStart(Tail(text)) ELSE text

RECURSIVE TrimEnd(_)
TrimEnd(text) ==
    IF text # << >> /\ text[Len(text)] = " "
    THEN TrimEnd(SubSeq(text, 1, Len(text) - 1))
    ELSE text

\* String.prototype.trim
Trim(text) == TrimEnd(TrimStart(text))

\* what a render hands to the handlers and to the controls
RagRendered(st) == [input |-> st.input, loading |-> st.loading]

\* <TextField disabled={loading}>
RagInputDisabled == ragView.loading

\* <Button disabled={loading || !input.trim()}>
RagSendDisabled == ragView.loading \/ Trim(ragView.input) = NoText

\* a handler that never returns early
RagSendRejected_Never(input, loading) == FALSE

\* if (!input.trim() || loading) return;
RagSendRejected(input, loading) == Trim(input) = NoText \/ loading

RagInFlight == {i \in DOMAIN ragFetches : ragFetches[i].state = "pending"}

\* handleSendMessage up to its first await, and the render that follows
\* the event
handleSendMessage ==
    IF RagSendRejected(ragView.input, ragView.loading)
    THEN UNCHANGED ragChatVars
    ELSE /\ Len(ragFetches) < MaxRagSends
         /\ ragChat' = [ragChat EXCEPT
                !.messages = Append(@, [role |-> "user", content |-> ragView.input]),
                !.input = NoText,
                !.loading = TRUE,
                !.error = "null"]
         /\ ragFetches' = Append(ragFetches,
                [question |-> ragView.input, state |-> "pending"])
         /\ ragView' = RagRendered(ragChat')

\* onChange={(e) => setInput(e.target.value)}
RagType(text) ==
    /\ ~RagInputDisabled
    /\ text # ragChat.input
    /\ ragChat' = [ragChat EXCEPT !.input = text]
    /\ ragView' = RagRendered(ragChat')
    /\ UNCHANGED <<ragFetches, citationVars, now, helperVars, sessionVars, chatVars, hfVars, backendVars>>

\* onClick={handleSendMessage}
RagSendClick ==
    /\ ~RagSendDisabled
    /\ handleSendMessage
    /\ UNCHANGED <<citationVars, now, helperVars, sessionVars, chatVars, hfVars, backendVars>>

\* onKeyPress={handleKeyPress}: Enter without Shift
RagEnterPress ==
    /\ ~RagInputDisabled
    /\ handleSendMessage
    /\ UNCHANGED <<citationVars, now, helperVars, sessionVars, chatVars, hfVars, backendVars>>

\* the fetch resolves with data.success: the answer is appended, and the
\* finally block clears loading
RagResponseOk(i) ==
    /\ i \in RagInFlight
    /\ ragChat' = [ragChat EXCEPT
            !.messages = Append(@, [role |-> "assistant", content |-> <<"a">>]),
            !.loading = FALSE]
    /\ ragFetches' = [ragFetches EXCEPT ![i].state = "settled"]
    /\ UNCHANGED <<ragView, citationVars, now, helperVars, sessionVars, chatVars, hfVars, backendVars>>

\* the fetch rejects, or resolves without data.success: the error is shown,
\* and the finally block clears loading
RagResponseError(i) ==
    /\ i \in RagInFlight
    /\ ragChat' = [ragChat EXCEPT !.error = "Failed to get response", !.loading = FALSE]
    /\ ragFetches' = [ragFetches EXCEPT ![i].state = "settled"]
    /\ UNCHANGED <<ragView, citationVars, now, helperVars, sessionVars, chatVars, hfVars, backendVars>>

\* React renders the state set after the await
RagRender ==
    /\ ragView # RagRendered(ragChat)
    /\ ragView' = RagRendered(ragChat)
    /\ UNCHANGED <<ragChat, ragFetches, citationVars, now, helperVars, sessionVars, chatVars, hfVars, backendVars>>

\* the backend is up and serves nothing
BackendAtRest ==
    /\ env = [GEMINI_API_KEY |-> TRUE, PINECONE_API_KEY |-> TRUE,
              OPENAI_API_KEY |-> TRUE, DELETE_UPLOADED_PDFS |-> TRUE]
    /\ handles = NoHandles
    /\ callers = << >>
    /\ isInitialized = FALSE
    /\ ServerIdle

RagChatInit ==
    /\ BackendAtRest
    /\ ClientAtRest

RagChatNext ==
    \/ \E text \in Inputs : RagType(text)
    \/ RagSendClick
    \/ RagEnterPress
    \/ \E i \in DOMAIN ragFetches : RagResponseOk(i)
    \/ \E i \in DOMAIN ragFetches : RagResponseError(i)
    \/ RagRender

RagChatSpec == RagChatInit /\ [][RagChatNext]_vars

----------------------------------------------------------------------------
(* RAGChatComponent: expanding and collapsing citations *)

\* indexes of the assistant messages that carry citations
MessageIndexes == {1, 3, 11}

\* ids of the citations of a message
CitationIds == {1, 2, 12}

DigitChars == <<"0", "1", "2", "3", "4", "5", "6", "7", "8", "9">>

\* the decimal digits of a non-negative integer, as a template literal
\* prints it
RECURSIVE NumberToString(_)
NumberToString(n) ==
    IF n < 10
    THEN <<DigitChars[n + 1]>>
    ELSE NumberToString(n \div 10) \o <<DigitChars[(n % 10) + 1]>>

\* const key = `${messageIndex}-${citationId}`
CitationKey(messageIndex, citationId) ==
    NumberToString(messageIndex) \o <<"-">> \o NumberToString(citationId)

\* a toggle that only ever adds
toggleCitation_AddOnly(prev, messageIndex, citationId) ==
    prev \cup {CitationKey(messageIndex, citationId)}

\* the updater handed to setExpandedCitations
toggleCitation(prev, messageIndex, citationId) ==
    LET key == CitationKey(messageIndex, citationId)
        newSet == prev
    IN  IF key \in newSet THEN newSet \ {key} ELSE newSet \cup {key}

\* the updater handed to setShowCitations
toggleCitationsVisibility(prev, messageIndex) ==
    LET newSet == prev
    IN  IF messageIndex \in newSet THEN newSet \ {messageIndex} ELSE newSet \cup {messageIndex}

\* onClick={() => toggleCitation(index, citation.id)}
ToggleCitation(messageIndex, citationId) ==
    /\ messageIndex \in showCitations
    /\ expandedCitations' = toggleCitation(expandedCitations, messageIndex, citationId)
    /\ toggled' = [messageIndex |-> messageIndex, citationId |-> citationId,
                   prev |-> expandedCitations]
    /\ UNCHANGED <<showCitations, ragChatVars, now, helperVars, sessionVars, chatVars, hfVars, backendVars>>

\* onClick={() => toggleCitationsVisibility(index)}
ToggleCitationsVisibility(messageIndex) ==
    /\ showCitations' = toggleCitationsVisibility(showCitations, messageIndex)
    /\ UNCHANGED <<expandedCitations, toggled, ragChatVars, now, helperVars, sessionVars, chatVars, hfVars, backendVars>>

CitationInit ==
    /\ BackendAtRest
    /\ ClientAtRest

CitationNext ==
    \/ \E m \in MessageIndexes, c \in CitationIds : ToggleCitation(m, c)
    \/ \E m \in MessageIndexes : ToggleCitationsVisibility(m)

CitationSpec == CitationInit /\ [][CitationNext]_vars

\* C22: toggleCitation(messageIndex, citationId) adds the key
\* "messageIndex-citationId" when it is absent and removes it when present,
\* leaves the membership of every other citation's key unchanged, and a
\* second call with the same arguments restores the original set
C22_ToggleCitation ==
    toggled # NoToggle =>
        LET key == CitationKey(toggled.messageIndex, toggled.citationId)
        IN  /\ key \in expandedCitations <=> key \notin toggled.prev
            /\ \A m \in MessageIndexes, c \in CitationIds :
                   <<m, c>> # <<toggled.messageIndex, toggled.citationId>> =>
                       (CitationKey(m, c) \in expandedCitations
                            <=> CitationKey(m, c) \in toggled.prev)
            /\ toggleCitation(expandedCitations, toggled.messageIndex, toggled.citationId)
                   = toggled.prev

\* a citation has just been collapsed while others stay expanded
C22_Witness ==
    /\ toggled # NoToggle
    /\ CitationKey(toggled.messageIndex, toggled.citationId) \in toggled.prev
    /\ Cardinality(expandedCitations) >= 2

----------------------------------------------------------------------------
(* The request-pacing helpers of src/utils/helpers.ts *)

\* latest clock reading, last request time and interval the helpers are
\* called with, in milliseconds
MaxHelperTime == 5

Max(a, b) == IF a >= b THEN a ELSE b

\* a check that needs more than the interval
canMakeRequest_Strict(lastRequestTime, minInterval) ==
    LET timeSinceLastRequest == now - lastRequestTime
    IN  timeSinceLastRequest > minInterval

\* export const canMakeRequest
canMakeRequest(lastRequestTime, minInterval) ==
    LET timeSinceLastRequest == now - lastRequestTime
    IN  timeSinceLastRequest >= minInterval

\* export const getTimeRemaining
getTimeRemaining(lastRequestTime, minInterval) ==
    LET timeSinceLastRequest == now - lastRequestTime
    IN  Max(0, minInterval - timeSinceLastRequest)

\* both helpers are evaluated at one reading of the clock
CallHelpers(lastRequestTime, minInterval) ==
    /\ helperCall' = [lastRequestTime |-> lastRequestTime,
                      minInterval |-> minInterval,
                      at |-> now,
                      canMakeRequest |-> canMakeRequest(lastRequestTime, minInterval),
                      getTimeRemaining |-> getTimeRemaining(lastRequestTime, minInterval)]
    /\ UNCHANGED <<now, ragChatVars, citationVars, sessionVars, chatVars, hfVars, backendVars>>

\* a millisecond passes
HelperClockTick ==
    /\ now < MaxHelperTime
    /\ now' = now + 1
    /\ UNCHANGED <<helperVars, ragChatVars, citationVars, sessionVars, chatVars, hfVars, backendVars>>

HelperInit ==
    /\ BackendAtRest
    /\ RagChatMounted
    /\ CitationsCollapsed
    /\ now = 0
    /\ HelpersUncalled
    /\ ChatUnmounted
    /\ HfIdle
    /\ PageClosed

HelperNext ==
    \/ \E lastRequestTime \in 0..MaxHelperTime, minInterval \in 0..MaxHelperTime :
           CallHelpers(lastRequestTime, minInterval)
    \/ HelperClockTick

HelperSpec == HelperInit /\ [][HelperNext]_vars

\* C23: canMakeRequest is true exactly when now - lastRequestTime >=
\* minInterval (true at exactly the interval), getTimeRemaining is
\* max(0, minInterval - (now - lastRequestTime)), and canMakeRequest is true
\* if and only if getTimeRemaining is 0
C23_CanMakeRequestIffNoTimeRemaining ==
    helperCall # NoCall =>
        LET elapsed == helperCall.at - helperCall.lastRequestTime
        IN  /\ helperCall.canMakeRequest <=> elapsed >= helperCall.minInterval
            /\ elapsed = helperCall.minInterval => helperCall.canMakeRequest
            /\ helperCall.getTimeRemaining >= 0
            /\ helperCall.getTimeRemaining >= helperCall.minInterval - elapsed
            /\ helperCall.getTimeRemaining \in {0, helperCall.minInterval - elapsed}
            /\ helperCall.canMakeRequest <=> helperCall.getTimeRemaining = 0

\* the helpers were called exactly at the interval, with a last request
\* time and an interval that are not zero
C23_Witness ==
    /\ helperCall # NoCall
    /\ helperCall.lastRequestTime > 0
    /\ helperCall.minInterval > 0
    /\ helperCall.at - helperCall.lastRequestTime = helperCall.minInterval
    /\ helperCall.canMakeRequest

----------------------------------------------------------------------------
(* Chat sessions: the storage utilities (src/utils/storage.ts) and the     *)
(* ChatProvider (src/contexts/ChatContext.tsx).  A stored item is a text;  *)
(* JSON.stringify makes a text of a value and JSON.parse fails on a text   *)
(* that is not JSON.  A timestamp is the clock reading it was made from.   *)
(* The effects of a render run before the next event is handled.           *)

\* number of sessions created
MaxSessions == 2

\* number of messages added to a session
MaxMessages == 1

\* latest reading of the clock while sessions are used
MaxSessionTime == 1

Providers == {"mock", "openai"}

\* the messages a chat component adds
ChatMessages == {[role |-> "user", content |-> "hello"]}

\* the settings a caller passes to updateSettings
SettingsPatches == {[autoSave |-> FALSE], [autoSave |-> TRUE]}

\* a text that is not JSON
CorruptItem == [kind |-> "corrupt"]

JSONstringify(value) == [kind |-> "json", value |-> value]

\* JSON.parse throws on the texts that do not parse
Parses(text) == text.kind = "json"

JSONparse(text) == text.value

\* { ...a, ...b }
Spread(a, b) == [k \in DOMAIN a \cup DOMAIN b |-> IF k \in DOMAIN b THEN b[k] ELSE a[k]]

\* export const getChatSessions
getChatSessions(ls) ==
    LET stored == ls.sessions
    IN  IF stored.kind = "absent" THEN << >>
        ELSE IF Parses(stored) THEN JSONparse(stored)
        ELSE << >>

\* sessions.findIndex(s => s.id === id), counted from 1; 0 when there is none
FindIndex(sessions, id) ==
    LET found == {i \in DOMAIN sessions : sessions[i].id = id}
    IN  IF found = {} THEN 0 ELSE CHOOSE i \in found : \A j \in found : i <= j

\* export const saveChatSession
saveChatSession(ls, session) ==
    LET sessions == getChatSessions(ls)
        existingIndex == FindIndex(sessions, session.id)
        saved == IF existingIndex >= 1
                 THEN [sessions EXCEPT ![existingIndex] = [session EXCEPT !.updatedAt = now]]
                 ELSE Append(sessions, session)
    IN  [ls EXCEPT !.sessions = JSONstringify(saved)]

\* export const getChatSession
getChatSession(ls, id) ==
    LET sessions == getChatSessions(ls)
        index == FindIndex(sessions, id)
    IN  IF index >= 1 THEN sessions[index] ELSE NoSession

\* export const deleteChatSession
deleteChatSession(ls, id) ==
    LET sessions == getChatSessions(ls)
        Other(session) == session.id # id
        filtered == SelectSeq(sessions, Other)
    IN  [ls EXCEPT !.sessions = JSONstringify(filtered)]

\* the id that is no session's: null or ''
NoId == 0

\* export const setCurrentSessionId
setCurrentSessionId(ls, id) == [ls EXCEPT !.current = [kind |-> "text", value |-> id]]

\* export const getCurrentSessionId
getCurrentSessionId(ls) ==
    IF ls.current.kind = "absent" THEN NoId ELSE ls.current.value

\* export const generateSessionId: ids are taken to be unique
generateSessionId == sessionSeq + 1

\* export const createNewSession
createNewSession(provider) ==
    LET id == generateSessionId
        timestamp == now
    IN  [id |-> id, provider |-> provider, messages |-> << >>,
         createdAt |-> timestamp, updatedAt |-> timestamp]

\* export const getAppSettings
getAppSettings(ls) ==
    LET stored == ls.settings
    IN  IF stored.kind = "absent" THEN DEFAULT_SETTINGS
        ELSE IF Parses(stored) THEN Spread(DEFAULT_SETTINGS, JSONparse(stored))
        ELSE DEFAULT_SETTINGS

\* export const saveAppSettings
saveAppSettings(ls, settings) ==
    LET currentSettings == getAppSettings(ls)
        updatedSettings == Spread(currentSettings, settings)
    IN  [ls EXCEPT !.settings = JSONstringify(updatedSettings)]

\* a sort that puts the least recently updated first
RECURSIVE SortOldestFirst(_)
SortOldestFirst(sessions) ==
    IF sessions = << >> THEN << >>
    ELSE LET rest == SortOldestFirst(SubSeq(sessions, 1, Len(sessions) - 1))
             last == sessions[Len(sessions)]
             Before(session) == session.updatedAt <= last.updatedAt
             After(session) == session.updatedAt > last.updatedAt
         IN  SelectSeq(rest, Before) \o <<last>> \o SelectSeq(rest, After)

\* sessions.sort((a, b) => new Date(b.updatedAt) - new Date(a.updatedAt)):
\* most recently updated first, equal ones in their stored order
RECURSIVE SortByUpdatedAt(_)
SortByUpdatedAt(sessions) ==
    IF sessions = << >> THEN << >>
    ELSE LET rest == SortByUpdatedAt(SubSeq(sessions, 1, Len(sessions) - 1))
             last == sessions[Len(sessions)]
             Before(session) == session.updatedAt >= last.updatedAt
             After(session) == session.updatedAt < last.updatedAt
         IN  SelectSeq(rest, Before) \o <<last>> \o SelectSeq(rest, After)

\* export const cleanupOldSessions
cleanupOldSessions(ls) ==
    LET settings == getAppSettings(ls)
        sessions == getChatSessions(ls)
    IN  IF Len(sessions) > settings.maxSessionHistory
        THEN LET sorted == SortByUpdatedAt(sessions)
                 toKeep == SubSeq(sorted, 1, settings.maxSessionHistory)
             IN  [ls EXCEPT !.sessions = JSONstringify(toKeep)]
        ELSE ls

\* the sessions a call of cleanupOldSessions removes from the storage
Evicted(ls) ==
    LET before == getChatSessions(ls)
        after == getChatSessions(cleanupOldSessions(ls))
    IN  {before[i] : i \in DOMAIN before} \ {after[i] : i \in DOMAIN after}

\* export const exportChatHistory
exportChatHistory(ls) ==
    LET sessions == getChatSessions(ls)
        settings == getAppSettings(ls)
    IN  JSONstringify([version |-> "1.0", exportDate |-> now,
                       sessions |-> sessions, settings |-> settings])

\* an import that restores the sessions and drops the settings
importChatHistory_SessionsOnly(ls, jsonData) ==
    IF ~Parses(jsonData)
    THEN [ok |-> FALSE, storage |-> ls]
    ELSE LET data == JSONparse(jsonData)
         IN  [ok |-> TRUE,
              storage |-> [ls EXCEPT !.sessions = JSONstringify(data.sessions),
                                     !.settings = AbsentItem]]

\* export const importChatHistory: what it returns and what it leaves in
\* the storage (an export always carries a sessions array and settings)
importChatHistory(ls, jsonData) ==
    IF ~Parses(jsonData)
    THEN [ok |-> FALSE, storage |-> ls]
    ELSE LET data == JSONparse(jsonData)
         IN  [ok |-> TRUE,
              storage |-> [ls EXCEPT !.sessions = JSONstringify(data.sessions),
                                     !.settings = JSONstringify(data.settings)]]

\* a DELETE_SESSION that always clears the current session
DELETE_SESSION_ClearsCurrent(st, payload) ==
    LET Other(session) == session.id # payload
        filteredSessions == SelectSeq(st.sessions, Other)
    IN  [st EXCEPT !.sessions = filteredSessions, !.currentSession = NoSession]

\* case 'DELETE_SESSION'
DELETE_SESSION(st, payload) ==
    LET Other(session) == session.id # payload
        filteredSessions == SelectSeq(st.sessions, Other)
    IN  [st EXCEPT !.sessions = filteredSessions,
                   !.currentSession =
                       IF st.currentSession.id = payload
                       THEN NoSession ELSE st.currentSession]

\* const chatReducer
chatReducer(st, action) ==
    CASE action.type = "SET_CURRENT_SESSION" ->
            [st EXCEPT !.currentSession = action.payload,
                       !.activeProvider = action.payload.provider]
      [] action.type = "ADD_MESSAGE" ->
            IF st.currentSession = NoSession THEN st
            ELSE [st EXCEPT !.currentSession.messages = Append(@, action.payload),
                            !.currentSession.updatedAt = now]
      [] action.type = "SET_LOADING" -> [st EXCEPT !.loading = action.payload]
      [] action.type = "SET_ERROR" -> [st EXCEPT !.error = action.payload]
      [] action.type = "SET_ACTIVE_PROVIDER" -> [st EXCEPT !.activeProvider = action.payload]
      [] action.type = "LOAD_SESSIONS" -> [st EXCEPT !.sessions = action.payload]
      [] action.type = "DELETE_SESSION" -> DELETE_SESSION(st, action.payload)
      [] action.type = "CREATE_NEW_SESSION" ->
            LET newSession == createNewSession(action.payload)
            IN  [st EXCEPT !.currentSession = newSession,
                           !.activeProvider = action.payload,
                           !.sessions = Append(@, newSession)]
      [] action.type = "CLEAR_CURRENT_SESSION" -> [st EXCEPT !.currentSession = NoSession]
      [] action.type = "UPDATE_SETTINGS" ->
            [st EXCEPT !.settings = Spread(st.settings, action.payload)]
      [] OTHER -> st

NoEffects == [autoSave |-> FALSE, settings |-> FALSE]

\* the dependencies of the effects that the action replaces: the current
\* session object or settings.autoSave for the auto-save effect, the
\* settings object for the effect that saves the settings
EffectsOf(st, action) ==
    LET next == chatReducer(st, action)
    IN  [autoSave |->
            \/ action.type \in {"SET_CURRENT_SESSION", "CREATE_NEW_SESSION"}
            \/ next.currentSession # st.currentSession
            \/ next.settings.autoSave # st.settings.autoSave,
         settings |-> action.type = "UPDATE_SETTINGS"]

Either(e, f) == [autoSave |-> e.autoSave \/ f.autoSave, settings |-> e.settings \/ f.settings]

\* an auto-save effect that never saves
AutoSaveDue_Never == FALSE

\* if (state.currentSession && state.settings.autoSave)
AutoSaveDue == state.currentSession # NoSession /\ state.settings.autoSave

\* the handlers run while the page is open and no effect is outstanding
Ready == providerMounted /\ pendingEffects = NoEffects

\* dispatch(action) and the render that follows
Dispatch(action) ==
    /\ state' = chatReducer(state, action)
    /\ pendingEffects' = EffectsOf(state, action)

\* the page is opened: initialState reads the settings, and the effects of
\* the first render run in order: loadInitialData (with cleanupOldSessions),
\* the auto-save effect (there is no current session yet) and the effect
\* that saves the settings
ProviderMount ==
    /\ ~providerMounted
    /\ LET initialState == [NoState EXCEPT !.settings = getAppSettings(localStorage)]
           sessions == getChatSessions(localStorage)
           loaded == chatReducer(initialState, [type |-> "LOAD_SESSIONS", payload |-> sessions])
           currentSessionId == getCurrentSessionId(localStorage)
           currentSession == IF currentSessionId # NoId
                             THEN getChatSession(localStorage, currentSessionId)
                             ELSE NoSession
           restore == [type |-> "SET_CURRENT_SESSION", payload |-> currentSession]
       IN  /\ state' = IF currentSession # NoSession THEN chatReducer(loaded, restore) ELSE loaded
           /\ pendingEffects' = [autoSave |-> currentSession # NoSession, settings |-> FALSE]
           /\ localStorage' = saveAppSettings(cleanupOldSessions(localStorage),
                                              initialState.settings)
           /\ lastCleanup' = [ran |-> TRUE, evicted |-> Evicted(localStorage)]
    /\ providerMounted' = TRUE
    /\ UNCHANGED <<sessionSeq, deletedIds, lastImport, now, helperVars,
                   ragChatVars, citationVars, chatVars, hfVars, backendVars>>

\* the page is closed or reloaded: the reducer state is gone
PageClose ==
    /\ Ready
    /\ providerMounted' = FALSE
    /\ state' = NoState
    /\ lastCleanup' = NoCleanup
    /\ UNCHANGED <<localStorage, pendingEffects, sessionSeq, deletedIds, lastImport,
                   now, helperVars, ragChatVars, citationVars, chatVars, hfVars, backendVars>>

\* the auto-save effect and the effect that saves the settings
RunEffects ==
    /\ providerMounted
    /\ pendingEffects # NoEffects
    /\ LET autoSaved == IF pendingEffects.autoSave /\ AutoSaveDue
                        THEN setCurrentSessionId(
                                 saveChatSession(localStorage, state.currentSession),
                                 state.currentSession.id)
                        ELSE localStorage
       IN  localStorage' = IF pendingEffects.settings
                           THEN saveAppSettings(autoSaved, state.settings)
                           ELSE autoSaved
    /\ pendingEffects' = NoEffects
    /\ UNCHANGED <<state, providerMounted, sessionSeq, deletedIds, lastImport, lastCleanup,
                   now, helperVars, ragChatVars, citationVars, chatVars, hfVars, backendVars>>

\* const createSession
createSession(provider) ==
    /\ Ready
    /\ sessionSeq < MaxSessions
    /\ Dispatch([type |-> "CREATE_NEW_SESSION", payload |-> provider])
    /\ sessionSeq' = sessionSeq + 1
    /\ UNCHANGED <<localStorage, providerMounted, deletedIds, lastImport, lastCleanup,
                   now, helperVars, ragChatVars, citationVars, chatVars, hfVars, backendVars>>

\* const switchProvider
switchProvider(provider) ==
    /\ Ready
    /\ LET first == [type |-> "SET_ACTIVE_PROVIDER", payload |-> provider]
           second == [type |-> "CREATE_NEW_SESSION", payload |-> provider]
           switched == chatReducer(state, first)
       IN  IF state.currentSession = NoSession \/ state.currentSession.provider # provider
           THEN /\ sessionSeq < MaxSessions
                /\ state' = chatReducer(switched, second)
                /\ pendingEffects' = Either(EffectsOf(state, first), EffectsOf(switched, second))
                /\ sessionSeq' = sessionSeq + 1
           ELSE /\ state' = switched
                /\ pendingEffects' = EffectsOf(state, first)
                /\ UNCHANGED sessionSeq
    /\ UNCHANGED <<localStorage, providerMounted, deletedIds, lastImport, lastCleanup,
                   now, helperVars, ragChatVars, citationVars, chatVars, hfVars, backendVars>>

\* const loadSession
loadSession(sessionId) ==
    /\ Ready
    /\ LET session == getChatSession(localStorage, sessionId)
       IN  IF session # NoSession
           THEN Dispatch([type |-> "SET_CURRENT_SESSION", payload |-> session])
           ELSE UNCHANGED <<state, pendingEffects>>
    /\ UNCHANGED <<localStorage, providerMounted, sessionSeq, deletedIds, lastImport, lastCleanup,
                   now, helperVars, ragChatVars, citationVars, chatVars, hfVars, backendVars>>

\* const deleteSession
deleteSession(sessionId) ==
    /\ Ready
    /\ localStorage' = deleteChatSession(localStorage, sessionId)
    /\ Dispatch([type |-> "DELETE_SESSION", payload |-> sessionId])
    /\ deletedIds' = deletedIds \cup {sessionId}
    /\ UNCHANGED <<providerMounted, sessionSeq, lastImport, lastCleanup,
                   now, helperVars, ragChatVars, citationVars, chatVars, hfVars, backendVars>>

\* const addMessage
addMessage(message) ==
    /\ Ready
    /\ Len(state.currentSession.messages) < MaxMessages
    /\ Dispatch([type |-> "ADD_MESSAGE", payload |-> message])
    /\ UNCHANGED <<localStorage, providerMounted, sessionSeq, deletedIds, lastImport, lastCleanup,
                   now, helperVars, ragChatVars, citationVars, chatVars, hfVars, backendVars>>

\* const setLoading
setLoading(loading) ==
    /\ Ready
    /\ Dispatch([type |-> "SET_LOADING", payload |-> loading])
    /\ UNCHANGED <<localStorage, providerMounted, sessionSeq, deletedIds, lastImport, lastCleanup,
                   now, helperVars, ragChatVars, citationVars, chatVars, hfVars, backendVars>>

\* const setError
setError(error) ==
    /\ Ready
    /\ Dispatch([type |-> "SET_ERROR", payload |-> error])
    /\ UNCHANGED <<localStorage, providerMounted, sessionSeq, deletedIds, lastImport, lastCleanup,
                   now, helperVars, ragChatVars, citationVars, chatVars, hfVars, backendVars>>

\* const saveCurrentSession
saveCurrentSession ==
    /\ Ready
    /\ state.currentSession # NoSession
    /\ localStorage' = saveChatSession(localStorage, state.currentSession)
    /\ UNCHANGED <<state, pendingEffects, providerMounted, sessionSeq, deletedIds,
                   lastImport, lastCleanup, now, helperVars, ragChatVars, citationVars, chatVars, hfVars, backendVars>>

\* const clearCurrentSession
clearCurrentSession ==
    /\ Ready
    /\ Dispatch([type |-> "CLEAR_CURRENT_SESSION"])
    /\ localStorage' = setCurrentSessionId(localStorage, NoId)
    /\ UNCHANGED <<providerMounted, sessionSeq, deletedIds, lastImport, lastCleanup,
                   now, helperVars, ragChatVars, citationVars, chatVars, hfVars, backendVars>>

\* const updateSettings
updateSettings(settings) ==
    /\ Ready
    /\ Dispatch([type |-> "UPDATE_SETTINGS", payload |-> settings])
    /\ UNCHANGED <<localStorage, providerMounted, sessionSeq, deletedIds, lastImport, lastCleanup,
                   now, helperVars, ragChatVars, citationVars, chatVars, hfVars, backendVars>>

\* time passes
SessionClockTick ==
    /\ now < MaxSessionTime
    /\ now' = now + 1
    /\ UNCHANGED <<sessionVars, helperVars, ragChatVars, citationVars, chatVars, hfVars, backendVars>>

SessionInit ==
    /\ BackendAtRest
    /\ RagChatMounted
    /\ CitationsCollapsed
    /\ HelpersUncalled
    /\ ChatUnmounted
    /\ HfIdle
    /\ now = 0
    /\ PageClosed

SessionNext ==
    \/ ProviderMount
    \/ PageClose
    \/ RunEffects
    \/ \E provider \in Providers : createSession(provider)
    \/ \E provider \in Providers : switchProvider(provider)
    \/ \E sessionId \in 1..MaxSessions : loadSession(sessionId)
    \* the session list offers deletion for the ids handed out so far
    \/ \E sessionId \in 1..sessionSeq : deleteSession(sessionId)
    \/ \E message \in ChatMessages : addMessage(message)
    \/ \E loading \in BOOLEAN : setLoading(loading)
    \/ \E error \in {"null", "Failed to load chat history"} : setError(error)
    \/ saveCurrentSession
    \/ clearCurrentSession
    \/ \E settings \in SettingsPatches : updateSettings(settings)
    \/ SessionClockTick

SessionSpec == SessionInit /\ [][SessionNext]_vars

\* the sessions in the storage that carry the id
StoredWithId(id) ==
    LET sessions == getChatSessions(localStorage)
    IN  {i \in DOMAIN sessions : sessions[i].id = id}

----------------------------------------------------------------------------
(* The storage utilities on their own: eviction and backup, applied to the *)
(* storages a browser can hold                                             *)

\* number of sessions in the storage
MaxStored == 3

\* the session stored at a position, last updated at a time
StoredSession(id, updatedAt) ==
    [id |-> id, provider |-> "mock", messages |-> << >>, createdAt |-> 0,
     updatedAt |-> updatedAt]

\* the session lists the storage holds
StoredLists ==
    UNION {{[i \in 1..n |-> StoredSession(i, times[i])] : times \in [1..n -> 0..MaxSessionTime]}
           : n \in 0..MaxStored}

\* the settings the storage holds
StoredSettings ==
    {AbsentItem, CorruptItem,
     JSONstringify([maxSessionHistory |-> 1]),
     JSONstringify([theme |-> "dark", autoSave |-> FALSE, maxSessionHistory |-> 2])}

\* cleanupOldSessions()
StorageCleanup ==
    /\ localStorage' = cleanupOldSessions(localStorage)
    /\ lastCleanup' = [ran |-> TRUE, evicted |-> Evicted(localStorage)]
    /\ UNCHANGED <<state, providerMounted, pendingEffects, sessionSeq, deletedIds,
                   lastImport, now, helperVars, ragChatVars, citationVars, chatVars, hfVars, backendVars>>

\* importChatHistory(exportChatHistory())
BackupRoundTrip ==
    /\ LET imported == importChatHistory(localStorage, exportChatHistory(localStorage))
       IN  /\ lastImport' = IF imported.ok THEN "true" ELSE "false"
           /\ localStorage' = imported.storage
    /\ UNCHANGED <<state, providerMounted, pendingEffects, sessionSeq, deletedIds,
                   lastCleanup, now, helperVars, ragChatVars, citationVars, chatVars, hfVars, backendVars>>

StorageInit ==
    /\ BackendAtRest
    /\ RagChatMounted
    /\ CitationsCollapsed
    /\ HelpersUncalled
    /\ ChatUnmounted
    /\ HfIdle
    /\ now = 0
    /\ \E sessions \in {AbsentItem, CorruptItem} \cup {JSONstringify(l) : l \in StoredLists},
          settings \in StoredSettings :
           localStorage = [sessions |-> sessions, current |-> AbsentItem, settings |-> settings]
    /\ state = NoState
    /\ providerMounted = FALSE
    /\ pendingEffects = NoEffects
    /\ sessionSeq = 0
    /\ deletedIds = {}
    /\ lastImport = "none"
    /\ lastCleanup = NoCleanup

StorageNext ==
    \/ StorageCleanup
    \/ BackupRoundTrip

StorageSpec == StorageInit /\ [][StorageNext]_vars

\* C25: after cleanupOldSessions runs, the storage holds at most
\* settings.maxSessionHistory sessions, and every evicted session has an
\* updatedAt no later than that of every retained session
C25_OldestEvictedFirst ==
    lastCleanup.ran =>
        LET retained == getChatSessions(localStorage)
        IN  /\ Len(retained) <= getAppSettings(localStorage).maxSessionHistory
            /\ \A e \in lastCleanup.evicted : \A i \in DOMAIN retained :
                   e.updatedAt <= retained[i].updatedAt

\* a session was evicted while a more recently updated one was retained
C25_Witness ==
    /\ lastCleanup.ran
    /\ \E e \in lastCleanup.evicted :
           \E i \in DOMAIN getChatSessions(localStorage) :
               e.updatedAt < getChatSessions(localStorage)[i].updatedAt

\* C26: importChatHistory(exportChatHistory()) returns true, and afterwards
\* getChatSessions() and getAppSettings() return what they returned before
C26_BackupRoundTrip ==
    [][BackupRoundTrip =>
          /\ lastImport' = "true"
          /\ getChatSessions(localStorage') = getChatSessions(localStorage)
          /\ getAppSettings(localStorage') = getAppSettings(localStorage)]_vars

\* a storage with sessions and with settings that are not the defaults has
\* been exported and imported
C26_Witness ==
    /\ lastImport = "true"
    /\ Len(getChatSessions(localStorage)) >= 2
    /\ getAppSettings(localStorage) # DEFAULT_SETTINGS

\* the members of a list
Members(list) == {list[i] : i \in DOMAIN list}

\* C30: deleteSession(id) removes exactly the sessions with that id from the
\* in-memory list and from the storage, clears currentSession if and only
\* if it had that id, leaves every other session, the active provider,
\* loading, error and settings unchanged, and the deleted session is not
\* written back to the storage afterwards
C30_DeleteSessionFrame ==
    /\ [][\A id \in 1..MaxSessions :
            deleteSession(id) =>
                LET stored == getChatSessions(localStorage)
                    storedAfter == getChatSessions(localStorage')
                IN  /\ Members(state'.sessions) = {x \in Members(state.sessions) : x.id # id}
                    /\ Len(state'.sessions)
                           = Cardinality({i \in DOMAIN state.sessions : state.sessions[i].id # id})
                    /\ Members(storedAfter) = {x \in Members(stored) : x.id # id}
                    /\ Len(storedAfter)
                           = Cardinality({i \in DOMAIN stored : stored[i].id # id})
                    /\ state'.currentSession =
                           IF state.currentSession.id = id THEN NoSession
                           ELSE state.currentSession
                    /\ state'.activeProvider = state.activeProvider
                    /\ state'.loading = state.loading
                    /\ state'.error = state.error
                    /\ state'.settings = state.settings]_vars
    /\ [](\A id \in deletedIds : StoredWithId(id) = {})

\* a stored session that is not the current one has been deleted while the
\* current session, with a message, stays stored, and the effects have run
C30_Witness ==
    /\ providerMounted /\ pendingEffects = NoEffects
    /\ deletedIds = {1}
    /\ state.currentSession.id = 2
    /\ state.currentSession.messages # << >>
    /\ state.loading
    /\ StoredWithId(2) # {}
    /\ Len(state.sessions) = 1

----------------------------------------------------------------------------
\* ChatComponent.tsx: the OpenAI chat tab

\* number of requests ChatComponent issues
MaxChatSends == 2

\* number of times the OpenAI chat tab is opened
MaxChatMounts == 2

\* number of steps the clock makes
MaxChatTicks == 3

\* const MIN_REQUEST_INTERVAL
MIN_REQUEST_INTERVAL == 10000

\* setTimeRemaining(60000)
RateLimitCooldown == 60000

\* setInterval(..., 1000)
TimerPeriod == 1000

\* the clock is read every five seconds
ClockStep == 5 * TimerPeriod

\* Date.now() when the page is opened: long after the epoch
PageOpenedAt == 2 * MIN_REQUEST_INTERVAL

\* server.js: the body of the proxy's answer to a 429 from OpenAI
RateLimitExceeded ==
    <<"Rate", "limit", "exceeded.", "Please", "try", "again", "later.">>

\* server.js: the body of the limiter's 429
TooManyRequests ==
    <<"Too", "many", "requests", "from", "this", "IP,", "please", "try", "again", "later.">>

\* what fetch(`${API_BASE_URL}/openai/chat`) settles with: a status and the
\* error field of the JSON body; status 0 is a rejected fetch
BackendAnswers ==
    { [status |-> 200, error |-> NoText],
      [status |-> 429, error |-> RateLimitExceeded],
      [status |-> 429, error |-> TooManyRequests],
      [status |-> 429, error |-> NoText],
      [status |-> 0, error |-> NoText] }

\* `${response.status}`: the status in decimal, as one word
StatusWord(status) == (429 :> "429" @@ 500 :> "500")[status]

\* export const sendMessageToOpenAI, after the fetch has settled
sendMessageToOpenAI(answer) ==
    IF answer.status = 0
    THEN [success |-> FALSE, error |-> <<"Failed", "to", "fetch">>]
    ELSE IF answer.status \notin 200..299
    THEN [success |-> FALSE,
          error |-> IF answer.error # NoText THEN answer.error
                    ELSE <<"API", "error:", StatusWord(answer.status)>>]
    ELSE [success |-> TRUE, error |-> NoText]

\* response.error?.includes('429'): some word of the text is the number
Includes429(text) == \E i \in DOMAIN text : text[i] = "429"

\* what a render hands to the handlers and to the controls
ChatRendered(st) == st

\* the texts typed into the chat's input box: nothing, a blank, a word
ChatInputs == {text \in Inputs : Len(text) <= 1}

\* <TextField disabled={loading || timeRemaining > 0}>
ChatInputDisabled == chatView.loading \/ chatView.timeRemaining > 0

\* <Button disabled={loading || timeRemaining > 0 || !input.trim()}>
ChatSendDisabled ==
    chatView.loading \/ chatView.timeRemaining > 0 \/ Trim(chatView.input) = NoText

\* Math.ceil(ms / 1000)
CeilSeconds(ms) == (ms + 999) \div 1000

\* the "Please wait N seconds ..." message
PleaseWait(lastRequestTime) ==
    [role |-> "assistant",
     content |-> <<"Please", "wait">>
                 \o NumberToString(CeilSeconds(getTimeRemaining(lastRequestTime, MIN_REQUEST_INTERVAL)))
                 \o <<"seconds">>]

\* the cooldown effect of a render: it runs when timeRemaining or
\* lastRequestTime changed, clears the interval it had set and sets a new
\* one unless timeRemaining <= 0
CooldownEffect(st) ==
    IF st.timeRemaining = chatView.timeRemaining
       /\ st.lastRequestTime = chatView.lastRequestTime
    THEN chatTimer
    ELSE IF st.timeRemaining <= 0
    THEN NoTimer
    ELSE [armed |-> TRUE, due |-> now + TimerPeriod,
          lastRequestTime |-> st.lastRequestTime]

\* a render of the state, and its effects
ChatCommit(st) ==
    /\ chatView' = ChatRendered(st)
    /\ chatTimer' = CooldownEffect(st)

\* const sendMessage, up to its await, called by the handlers of the last
\* render; the setInput('') of handleSend is part of the same update
sendMessage(message) ==
    IF Trim(message) = NoText
    THEN /\ chat' = [chat EXCEPT !.input = NoText]
         /\ UNCHANGED chatRequests
    ELSE IF ~canMakeRequest(chatView.lastRequestTime, MIN_REQUEST_INTERVAL)
    THEN /\ chat' = [chat EXCEPT
                !.input = NoText,
                !.chatLog = Append(@, PleaseWait(chatView.lastRequestTime))]
         /\ UNCHANGED chatRequests
    ELSE /\ Len(chatRequests) < MaxChatSends
         /\ chat' = [chat EXCEPT
                !.input = NoText,
                !.loading = TRUE,
                !.chatLog = Append(@, [role |-> "user", content |-> message]),
                !.lastRequestTime = now,
                !.timeRemaining = MIN_REQUEST_INTERVAL]
         /\ chatRequests' = Append(chatRequests,
                [at |-> now, mount |-> chatMounts, state |-> "pending",
                 status |-> 0, answeredAt |-> 0])

\* const handleSend, and the render that follows the event
handleSend ==
    IF chatView.loading \/ Trim(chatView.input) = NoText
    THEN UNCHANGED <<chat, chatView, chatTimer, chatRequests>>
    ELSE /\ sendMessage(chatView.input)
         /\ ChatCommit(chat')

\* the user opens the OpenAI chat tab: {activeTab === 1 && <ChatComponent />}
ChatMount ==
    /\ ~chatMounted
    /\ chatMounts < MaxChatMounts
    /\ chatMounted' = TRUE
    /\ chatMounts' = chatMounts + 1
    /\ chat' = ChatInitialState
    /\ chatView' = ChatRendered(ChatInitialState)
    /\ chatTimer' = NoTimer
    /\ UNCHANGED <<chatRequests, now, ragChatVars, citationVars, helperVars,
                   sessionVars, hfVars, backendVars>>

\* the user opens another tab: the component unmounts, its state is
\* dropped and the effect's cleanup clears the interval
ChatUnmount ==
    /\ chatMounted
    /\ chatMounted' = FALSE
    /\ chat' = ChatInitialState
    /\ chatView' = ChatInitialState
    /\ chatTimer' = NoTimer
    /\ UNCHANGED <<chatMounts, chatRequests, now, ragChatVars, citationVars,
                   helperVars, sessionVars, hfVars, backendVars>>

\* onChange={(e) => setInput(e.target.value)}
ChatType(text) ==
    /\ chatMounted
    /\ ~ChatInputDisabled
    /\ text # chat.input
    /\ chat' = [chat EXCEPT !.input = text]
    /\ ChatCommit(chat')
    /\ UNCHANGED <<chatMounted, chatMounts, chatRequests, now, ragChatVars,
                   citationVars, helperVars, sessionVars, hfVars, backendVars>>

\* onClick={handleSend}
ChatSendClick ==
    /\ chatMounted
    /\ ~ChatSendDisabled
    /\ handleSend
    /\ UNCHANGED <<chatMounted, chatMounts, now, ragChatVars, citationVars,
                   helperVars, sessionVars, hfVars, backendVars>>

\* onKeyPress: Enter without Shift
ChatEnterPress ==
    /\ chatMounted
    /\ ~ChatInputDisabled
    /\ handleSend
    /\ UNCHANGED <<chatMounted, chatMounts, now, ragChatVars, citationVars,
                   helperVars, sessionVars, hfVars, backendVars>>

ChatInFlight == {i \in DOMAIN chatRequests : chatRequests[i].state = "pending"}

\* the request was issued by the component instance that is mounted now
OfThisMount(i) == chatMounted /\ chatRequests[i].mount = chatMounts

\* sendMessage after its await: the answer is appended, a failure whose
\* text includes '429' starts the long cooldown, and the finally block
\* clears loading; a component that has unmounted ignores the updates
ChatResponse(i, answer) ==
    /\ i \in ChatInFlight
    /\ chatRequests' = [chatRequests EXCEPT
            ![i].state = "settled", ![i].status = answer.status,
            ![i].answeredAt = now]
    /\ LET apiResponse == sendMessageToOpenAI(answer)
       IN  IF ~OfThisMount(i)
           THEN UNCHANGED chat
           ELSE IF apiResponse.success
           THEN chat' = [chat EXCEPT
                    !.chatLog = Append(@, [role |-> "assistant", content |-> <<"a">>]),
                    !.loading = FALSE]
           ELSE chat' = [chat EXCEPT
                    !.chatLog = Append(@, [role |-> "assistant",
                                           content |-> <<"Error:">> \o apiResponse.error]),
                    !.timeRemaining = IF Includes429(apiResponse.error)
                                      THEN RateLimitCooldown ELSE @,
                    !.loading = FALSE]
    /\ UNCHANGED <<chatView, chatMounted, chatTimer, chatMounts, now, ragChatVars,
                   citationVars, helperVars, sessionVars, hfVars, backendVars>>

\* React renders the state set after an await or by the interval
ChatRender ==
    /\ chatMounted
    /\ chatView # ChatRendered(chat)
    /\ ChatCommit(chat)
    /\ UNCHANGED <<chat, chatMounted, chatMounts, chatRequests, now, ragChatVars,
                   citationVars, helperVars, sessionVars, hfVars, backendVars>>

\* the interval's callback, a second or more after it was set
ChatTimerTick ==
    /\ chatMounted
    /\ chatTimer.armed
    /\ now >= chatTimer.due
    /\ LET remaining == getTimeRemaining(chatTimer.lastRequestTime, MIN_REQUEST_INTERVAL)
       IN  /\ chat' = [chat EXCEPT !.timeRemaining = remaining]
           /\ chatTimer' = IF remaining <= 0 THEN NoTimer
                           ELSE [chatTimer EXCEPT !.due = now + TimerPeriod]
    /\ UNCHANGED <<chatView, chatMounted, chatMounts, chatRequests, now, ragChatVars,
                   citationVars, helperVars, sessionVars, hfVars, backendVars>>

\* time passes
ChatClockTick ==
    /\ now < PageOpenedAt + MaxChatTicks * ClockStep
    /\ now' = now + ClockStep
    /\ UNCHANGED <<chatVars, ragChatVars, citationVars, helperVars, sessionVars,
                   hfVars, backendVars>>

ChatInit ==
    /\ BackendAtRest
    /\ RagChatMounted
    /\ CitationsCollapsed
    /\ HelpersUncalled
    /\ PageClosed
    /\ ChatUnmounted
    /\ HfIdle
    /\ now = PageOpenedAt

ChatNext ==
    \/ ChatMount
    \/ ChatUnmount
    \/ \E text \in ChatInputs : ChatType(text)
    \/ ChatSendClick
    \/ ChatEnterPress
    \/ \E i \in DOMAIN chatRequests : \E answer \in BackendAnswers : ChatResponse(i, answer)
    \/ ChatRender
    \/ ChatTimerTick
    \/ ChatClockTick

ChatSpec == ChatInit /\ [][ChatNext]_vars

\* a request was issued less than MIN_REQUEST_INTERVAL ago
RequestedRecently ==
    \E i \in DOMAIN chatRequests : now - chatRequests[i].at < MIN_REQUEST_INTERVAL

\* the user sends a non-blank text with the button or the Enter key
ChatSendAttempt ==
    /\ ChatSendClick \/ ChatEnterPress
    /\ ~chatView.loading
    /\ Trim(chatView.input) # NoText

\* C27: no two requests of the OpenAI chat component are issued less than
\* MIN_REQUEST_INTERVAL (10 s) apart, and a send attempted earlier only
\* appends a "Please wait" assistant message: it issues no request and adds
\* no user message
C27_MinimumRequestInterval ==
    /\ [](\A i, j \in DOMAIN chatRequests :
            i < j => chatRequests[j].at - chatRequests[i].at >= MIN_REQUEST_INTERVAL)
    /\ [][ChatSendAttempt /\ RequestedRecently =>
            /\ chatRequests' = chatRequests
            /\ chat'.chatLog = Append(chat.chatLog, PleaseWait(chatView.lastRequestTime))]_vars

\* the requests issued by one mounted instance of the component are at
\* least MIN_REQUEST_INTERVAL apart
SpacedWithinOneMount ==
    \A i, j \in DOMAIN chatRequests :
        i < j /\ chatRequests[i].mount = chatRequests[j].mount
            => chatRequests[j].at - chatRequests[i].at >= MIN_REQUEST_INTERVAL

\* request i was answered with status 429 and its component is still mounted
RateLimited(i) ==
    /\ chatRequests[i].state = "settled"
    /\ chatRequests[i].status = 429
    /\ OfThisMount(i)

\* once the answer has been rendered, the controls are disabled for a minute
\* after a 429
DisabledForAMinute ==
    \A i \in DOMAIN chatRequests :
        RateLimited(i) /\ chatView = ChatRendered(chat)
        /\ now - chatRequests[i].answeredAt < RateLimitCooldown
            => ChatInputDisabled /\ ChatSendDisabled

\* C28: when the backend answers a request with HTTP 429, timeRemaining is
\* set to 60000 ms, and the input and the Send button stay disabled until a
\* full minute has elapsed
C28_RateLimitCooldown ==
    /\ [][\A i \in DOMAIN chatRequests :
            (\E answer \in BackendAnswers :
                 answer.status = 429 /\ ChatResponse(i, answer)) /\ OfThisMount(i)
                => chat'.timeRemaining = RateLimitCooldown]_vars
    /\ []DisabledForAMinute

----------------------------------------------------------------------------
\* server.js: POST /api/huggingface/chat

\* number of requests the proxy serves
MaxHfRequests == 2

\* const models
models ==
    <<"facebook/blenderbot-400M-distill", "microsoft/DialoGPT-small", "gpt2", "distilgpt2">>

\* what axios.post settles with. Resolved: the body is an array or object
\* with a generated text ("generated"), a generated text that only echoes
\* the input ("echo"), a body without a text ("empty"), or the JSON value
\* null ("null"). Rejected: the upstream status, 0 when there was no
\* response (timeout, network)
Resolved(body) == [resolved |-> TRUE, body |-> body, status |-> 200]

Rejected(status) == [resolved |-> FALSE, body |-> "none", status |-> status]

UpstreamOutcomes ==
    {Resolved(body) : body \in {"generated", "echo", "empty", "null"}}
        \cup {Rejected(status) : status \in {0, 401, 403, 404, 500, 503}}

\* the call has been made and has not settled
Pending == [resolved |-> FALSE, body |-> "pending", status |-> -1]

\* a try block that never reaches its return
ReachesReturn_Never(outcome) == FALSE

\* the try block runs to its return: the call resolved and the body could
\* be read (response.data.generated_text of null throws a TypeError)
ReachesReturn(outcome) == outcome.resolved /\ outcome.body # "null"

\* the data of the success response
AssistantMessage(outcome) ==
    CASE outcome.body = "generated" -> "generated text"
      [] outcome.body = "echo" ->
            "I received your message but had trouble generating a response."
      [] OTHER -> "No response generated"

\* the answer after all models failed, chosen by the last error
AllFailedResponse(lastError) ==
    IF lastError.resolved \/ lastError.status = 0
    THEN [status |-> 500, success |-> FALSE, model |-> "none",
          text |-> "Unable to connect to Hugging Face Inference API."]
    ELSE IF lastError.status \in {401, 403}
    THEN [status |-> 500, success |-> FALSE, model |-> "none",
          text |-> "Hugging Face API authentication failed."]
    ELSE IF lastError.status = 404
    THEN [status |-> 500, success |-> FALSE, model |-> "none",
          text |-> "Hugging Face models not accessible."]
    ELSE IF lastError.status = 503
    THEN [status |-> 503, success |-> FALSE, model |-> "none",
          text |-> "All Hugging Face models are currently loading."]
    ELSE [status |-> 500, success |-> FALSE, model |-> "none",
          text |-> "Unable to connect to Hugging Face Inference API."]

\* the handler up to its first await: the two checks, then the first
\* iteration of the loop calls models[0]
HfReceive(token, input) ==
    /\ hfRequest.pc \in {"idle", "done"}
    /\ hfServed < MaxHfRequests
    /\ hfServed' = hfServed + 1
    /\ IF ~token
       THEN /\ hfRequest' = [NoRequest EXCEPT !.pc = "done", !.input = input]
            /\ hfCalls' = << >>
            /\ hfResponses' = <<[status |-> 500, success |-> FALSE, model |-> "none",
                                 text |-> "Hugging Face token not configured on server"]>>
       ELSE IF input = NoText
       THEN /\ hfRequest' = [NoRequest EXCEPT !.pc = "done", !.token = TRUE]
            /\ hfCalls' = << >>
            /\ hfResponses' = <<[status |-> 400, success |-> FALSE, model |-> "none",
                                 text |-> "Input text is required"]>>
       ELSE /\ hfRequest' = [pc |-> "await", token |-> TRUE, input |-> input,
                             lastError |-> NoError]
            /\ hfCalls' = <<[model |-> models[1], outcome |-> Pending]>>
            /\ hfResponses' = << >>
    /\ UNCHANGED <<now, ragChatVars, citationVars, helperVars, sessionVars,
                   chatVars, backendVars>>

\* the awaited call settles: the try block returns the success response, or
\* the catch block records the error and the loop goes on to the next
\* model; after the last model the error response is sent
HfSettle(outcome) ==
    /\ hfRequest.pc = "await"
    /\ LET k == Len(hfCalls)
           settled == [hfCalls EXCEPT ![k].outcome = outcome]
       IN  IF ReachesReturn(outcome)
           THEN /\ hfCalls' = settled
                /\ hfResponses' = Append(hfResponses,
                       [status |-> 200, success |-> TRUE, model |-> hfCalls[k].model,
                        text |-> AssistantMessage(outcome)])
                /\ hfRequest' = [hfRequest EXCEPT !.pc = "done"]
           ELSE IF k < Len(models)
           THEN /\ hfCalls' = Append(settled, [model |-> models[k + 1], outcome |-> Pending])
                /\ hfRequest' = [hfRequest EXCEPT !.lastError = outcome]
                /\ UNCHANGED hfResponses
           ELSE /\ hfCalls' = settled
                /\ hfResponses' = Append(hfResponses, AllFailedResponse(outcome))
                /\ hfRequest' = [hfRequest EXCEPT !.pc = "done", !.lastError = outcome]
    /\ UNCHANGED <<hfServed, now, ragChatVars, citationVars, helperVars, sessionVars,
                   chatVars, backendVars>>

HfInit ==
    /\ BackendAtRest
    /\ ClientAtRest

HfNext ==
    \/ \E token \in BOOLEAN, input \in ChatInputs : HfReceive(token, input)
    \/ \E outcome \in UpstreamOutcomes : HfSettle(outcome)

HfSpec == HfInit /\ [][HfNext]_vars

\* the request has a configured token and a non-empty input
HfValid == hfRequest.pc # "idle" /\ hfRequest.token /\ hfRequest.input # NoText

\* the upstream call answered and its answer was used
Succeeded(call) == call.outcome.resolved /\ call.outcome.body # "null"

\* the upstream call has settled without an answer that could be used
Failed(call) == call.outcome # Pending /\ ~Succeeded(call)

\* C29: for a /api/huggingface/chat request with a configured token and a
\* non-empty input, the models are attempted in list order, none is
\* attempted after one has succeeded, at most four upstream calls are made,
\* and exactly one response is sent: the success of the first model that
\* succeeded, or an error only after every model of the list has failed
C29_FallbackInOrder ==
    HfValid =>
        /\ Len(hfCalls) <= 4
        /\ \A k \in DOMAIN hfCalls : hfCalls[k].model = models[k]
        /\ \A j, k \in DOMAIN hfCalls : j < k => Failed(hfCalls[j])
        /\ IF hfRequest.pc = "done"
           THEN /\ Len(hfResponses) = 1
                /\ IF hfResponses[1].success
                   THEN /\ Succeeded(hfCalls[Len(hfCalls)])
                        /\ hfResponses[1].model = hfCalls[Len(hfCalls)].model
                        /\ hfResponses[1].status = 200
                   ELSE /\ Len(hfCalls) = Len(models)
                        /\ \A k \in DOMAIN hfCalls : Failed(hfCalls[k])
                        /\ hfResponses[1].status >= 500
           ELSE hfResponses = << >>

\* two models failed, the second with a body that could not be read, and
\* the third answered: its success is the one response
C29_Witness ==
    /\ HfValid
    /\ hfRequest.pc = "done"
    /\ Len(hfCalls) = 3
    /\ hfCalls[1].outcome = Rejected(503)
    /\ hfCalls[2].outcome = Resolved("null")
    /\ hfResponses = <<[status |-> 200, success |-> TRUE, model |-> "gpt2",
                        text |-> "generated text"]>>

\* all four models failed and the error response was sent
HfAllFailed ==
    /\ HfValid
    /\ hfRequest.pc = "done"
    /\ Len(hfCalls) = 4
    /\ ~hfResponses[1].success

====
